---- MODULE Spec2Model ----
(***************************************************************************)
(* A state-machine model of the sharded crossword lookup engine            *)
(* (ChunkedCrosswordLoader, chunked-data-loader.ts).  Strings are          *)
(* sequences of one-character strings.  An asynchronous method is cut at   *)
(* its await points: each action is the code that runs between two         *)
(* suspension points of one call.                                          *)
(***************************************************************************)
EXTENDS Integers, Sequences, FiniteSets, TLC

VARIABLES
    manifest,     \* this.manifest: NoManifest (null) or the value JSON.parse gave
    chunkCache,   \* this.chunkCache: a Map, kept as its entries in insertion order
    resultCache,  \* this.resultCache: a Map, kept as its entries in insertion order
    now,          \* Date.now(), in milliseconds
    dataBucket,   \* the R2 bucket: the manifest object it stores
    calls,        \* per caller: the position and locals of its findMatchingAnswers call
    insertLog,    \* history: shard identifiers in the order chunkCache first received them
    putLog,       \* history: cache keys in the order setCachedResult stored them
    ticks,        \* history: how many times the clock advanced
    nCalls,       \* history: how many calls were started
    probe,        \* the last direct application of the compiled matcher
    build,        \* the offline shard build: its input and what it wrote
    response      \* the last response a handler gave without a search

vars == <<manifest, chunkCache, resultCache, now, dataBucket, calls,
          insertLog, putLog, ticks, nCalls, probe, build, response>>

\* ------------------------------------------------------------------ bounds

MaxCalls == 2          \* queries per behaviour of Spec
MaxRepeatCalls == 3    \* queries per behaviour of SpecRepeat
MaxTicks == 2          \* clock advances per behaviour
MaxQueryTicks == 1     \* clock advances per behaviour of the query engine
MaxShardQueries == 6   \* queries per behaviour of SpecChunkCache
MaxProbeLen == 2       \* longest pattern the matcher is probed with
MaxClueCalls == 2      \* clue lookups per behaviour of SpecClues
MaxConcurrentCalls == 3  \* calls per behaviour of SpecConcurrent
MaxMutateCalls == 2    \* queries per behaviour of SpecMutate
MaxFillQueries == 100  \* queries that fill the result cache in SpecPutRace
MaxRaceCalls == 2      \* queries that follow them in SpecPutRace
MaxRereadQueries == 7  \* queries per behaviour of SpecChunkReread
MaxBuildLines == 3     \* input lines of the shard build in SpecBuild
MaxAnalyzeLen == 7     \* length of the patterns analysed in SpecAnalyze
MaxRequests == 2       \* searches per behaviour of SpecHandler

\* ------------------------------------------------------- program constants

CACHE_TTL == 5 * 60 * 1000
MAX_RESULT_CACHE_SIZE == 100
MAX_CHUNK_CACHE_SIZE == 10
MAX_ANSWER_LENGTH == 20
MAX_CLUES_PER_ANSWER == 10

\* ----------------------------------------------------------------- strings

Lower == <<"a","b","c","d","e","f","g","h","i","j","k","l","m",
           "n","o","p","q","r","s","t","u","v","w","x","y","z">>
Upper == <<"A","B","C","D","E","F","G","H","I","J","K","L","M",
           "N","O","P","Q","R","S","T","U","V","W","X","Y","Z">>
UpperLetters == {Upper[i] : i \in 1..26}
LowerLetters == {Lower[i] : i \in 1..26}
Digits == {"0","1","2","3","4","5","6","7","8","9"}

toUpperCaseChar(ch) ==
    IF \E i \in 1..26 : Lower[i] = ch
    THEN Upper[CHOOSE i \in 1..26 : Lower[i] = ch]
    ELSE ch

\* String.prototype.toUpperCase
toUpperCase(s) == [i \in 1..Len(s) |-> toUpperCaseChar(s[i])]

\* firstChar.replace(/[^A-Z0-9]/g, '_') on a one-character string
cleanFirstChar(ch) == IF ch \in UpperLetters \cup Digits THEN ch ELSE "_"

Min(a, b) == IF a <= b THEN a ELSE b

\* the number NaN; every other number of the model is an integer above it
NaN == -1000000

\* a >= b on numbers: false when an operand is NaN
AtLeast(a, b) == a # NaN /\ b # NaN /\ a >= b

\* a < b on numbers: false when an operand is NaN
LessThan(a, b) == a # NaN /\ b # NaN /\ a < b

\* Array.prototype.slice(0, n): a negative n counts from the end, NaN is
\* taken as 0
Slice(s, n) ==
    IF n = NaN THEN <<>>
    ELSE IF n < 0 THEN SubSeq(s, 1, Len(s) + n)
    ELSE SubSeq(s, 1, Min(n, Len(s)))

DigitValue(ch) == CHOOSE n \in 0..9 : ToString(n) = ch

\* the leading decimal digits of a string
RECURSIVE DigitRun(_)
DigitRun(s) ==
    IF s = <<>> \/ Head(s) \notin Digits THEN <<>>
    ELSE <<Head(s)>> \o DigitRun(Tail(s))

RECURSIVE DecimalValue(_, _)
DecimalValue(ds, acc) ==
    IF ds = <<>> THEN acc
    ELSE DecimalValue(Tail(ds), 10 * acc + DigitValue(Head(ds)))

\* the white space of the language (what parseInt skips and \s accepts)
\* that is among the model's characters: space, tab, line feed, carriage
\* return and form feed
WhiteSpace == {" ", "\t", "\n", "\r", "\f"}

RECURSIVE TrimStart(_)
TrimStart(s) == IF s # <<>> /\ Head(s) \in WhiteSpace THEN TrimStart(Tail(s)) ELSE s

\* parseInt(text, 10): leading white space is skipped, then a sign may
\* stand, then the longest run of digits counts; NaN when there is no digit
ParseInt(text) ==
    LET s == TrimStart(text)
        signed == s # <<>> /\ Head(s) \in {"+", "-"}
        ds == DigitRun(IF signed THEN Tail(s) ELSE s)
    IN  IF ds = <<>> THEN NaN
        ELSE IF signed /\ Head(s) = "-" THEN 0 - DecimalValue(ds, 0)
        ELSE DecimalValue(ds, 0)

\* ----------------------------------------------------------------- matcher

\* the printable characters in the order of their codes, from 32 (space);
\* the grave accent, code 96, is not among the model's characters
Ascii ==
    <<" ", "!", "\"", "#", "$", "%", "&", "'", "(", ")", "*", "+", ",", "-",
      ".", "/", "0", "1", "2", "3", "4", "5", "6", "7", "8", "9", ":", ";",
      "<", "=", ">", "?", "@",
      "A", "B", "C", "D", "E", "F", "G", "H", "I", "J", "K", "L", "M",
      "N", "O", "P", "Q", "R", "S", "T", "U", "V", "W", "X", "Y", "Z",
      "[", "\\", "]", "^", "_", "grave",
      "a", "b", "c", "d", "e", "f", "g", "h", "i", "j", "k", "l", "m",
      "n", "o", "p", "q", "r", "s", "t", "u", "v", "w", "x", "y", "z",
      "{", "|", "}", "~">>

AsciiCode == [ch \in {Ascii[n] : n \in 1..Len(Ascii)} |->
                 31 + (CHOOSE n \in 1..Len(Ascii) : Ascii[n] = ch)]

\* the code of a character; the model's characters are the printable ones
\* and the white space \t, \n, \f, \r
CharCode(ch) ==
    IF ch \in DOMAIN AsciiCode THEN AsciiCode[ch]
    ELSE IF ch = "\t" THEN 9
    ELSE IF ch = "\n" THEN 10
    ELSE IF ch = "\f" THEN 12
    ELSE IF ch = "\r" THEN 13
    ELSE -1

\* the character at a position of a source text, "" behind its end
At(src, i) == IF i >= 1 /\ i <= Len(src) THEN src[i] ELSE ""

\* a matcher that leaves out the end anchor
RECURSIVE RegExpSource_NoEndAnchor(_)
RegExpSource_NoEndAnchor(normalizedPattern) ==
    IF normalizedPattern = <<>> THEN <<"^">>
    ELSE LET last == normalizedPattern[Len(normalizedPattern)]
             front == SubSeq(normalizedPattern, 1, Len(normalizedPattern) - 1)
         IN  RegExpSource_NoEndAnchor(front)
                 \o (IF last = "?" THEN <<"[", "A", "-", "Z", "]">> ELSE <<last>>)

\* normalizedPattern.replace(/\?/g, '[A-Z]')
RECURSIVE ReplaceWildcards(_)
ReplaceWildcards(normalizedPattern) ==
    IF normalizedPattern = <<>> THEN <<>>
    ELSE (IF Head(normalizedPattern) = "?" THEN <<"[", "A", "-", "Z", "]">>
          ELSE <<Head(normalizedPattern)>>)
             \o ReplaceWildcards(Tail(normalizedPattern))

\* '^' + normalizedPattern.replace(/\?/g, '[A-Z]') + '$': the source text
\* handed to new RegExp
RegExpSource(normalizedPattern) ==
    <<"^">> \o ReplaceWildcards(normalizedPattern) \o <<"$">>

\* the result of parsing a piece of a source text: the node parsed and the
\* position behind it, or an error
ParseError == [error |-> TRUE, node |-> [t |-> "none"], next |-> 0]

Parsed(node, next) == [error |-> FALSE, node |-> node, next |-> next]

NoQuantifier == [found |-> FALSE, error |-> FALSE, min |-> 0, max |-> 0, next |-> 0]

\* {n}, {n,} or {n,m} at a position; max -1 stands for no upper limit
BraceQuantifier(src, i) ==
    LET d1 == DigitRun(SubSeq(src, i + 1, Len(src)))
        j == i + 1 + Len(d1)
        d2 == DigitRun(SubSeq(src, j + 1, Len(src)))
        k == j + 1 + Len(d2)
        min == DecimalValue(d1, 0)
    IN  IF At(src, i) # "{" \/ d1 = <<>> THEN NoQuantifier
        ELSE IF At(src, j) = "}"
             THEN [found |-> TRUE, error |-> FALSE, min |-> min, max |-> min,
                   next |-> j + 1]
        ELSE IF At(src, j) = "," /\ At(src, k) = "}"
             THEN IF d2 = <<>>
                  THEN [found |-> TRUE, error |-> FALSE, min |-> min, max |-> -1,
                        next |-> k + 1]
                  ELSE [found |-> TRUE, error |-> DecimalValue(d2, 0) < min,
                        min |-> min, max |-> DecimalValue(d2, 0), next |-> k + 1]
        ELSE NoQuantifier

\* the quantifier at a position, if one stands there, with the '?' that may
\* follow it
ParseQuantifier(src, i) ==
    LET Lazy(q) ==
            IF q.found /\ At(src, q.next) = "?" THEN [q EXCEPT !.next = q.next + 1]
            ELSE q
    IN  Lazy(IF At(src, i) = "*"
             THEN [found |-> TRUE, error |-> FALSE, min |-> 0, max |-> -1, next |-> i + 1]
             ELSE IF At(src, i) = "+"
             THEN [found |-> TRUE, error |-> FALSE, min |-> 1, max |-> -1, next |-> i + 1]
             ELSE IF At(src, i) = "?"
             THEN [found |-> TRUE, error |-> FALSE, min |-> 0, max |-> 1, next |-> i + 1]
             ELSE BraceQuantifier(src, i))

ClassEscapes == {"d", "D", "s", "S", "w", "W"}

OctalDigits == {"0", "1", "2", "3", "4", "5", "6", "7"}

HexDigits == Digits \cup {"A", "B", "C", "D", "E", "F", "a", "b", "c", "d", "e", "f"}

HexValue(ch) ==
    IF ch \in Digits THEN DigitValue(ch)
    ELSE IF ch \in UpperLetters THEN CharCode(ch) - 55
    ELSE CharCode(ch) - 87

\* the capturing groups opened in src[i..n]: every '(' that is not escaped
\* and stands outside a character class (the source of line 197 holds no
\* '?', so that every group captures)
RECURSIVE CaptureScan(_, _, _, _)
CaptureScan(src, i, n, inClass) ==
    IF i > n THEN 0
    ELSE IF src[i] = "\\" THEN CaptureScan(src, i + 2, n, inClass)
    ELSE IF inClass THEN CaptureScan(src, i + 1, n, src[i] # "]")
    ELSE IF src[i] = "[" THEN CaptureScan(src, i + 1, n, TRUE)
    ELSE (IF src[i] = "(" THEN 1 ELSE 0) + CaptureScan(src, i + 1, n, FALSE)

\* the number of capturing groups opened in the first n characters
CaptureCount(src, n) == CaptureScan(src, 1, n, FALSE)

\* a legacy octal escape whose first digit stands at position i: up to
\* three octal digits, the third only behind a first digit below 4
OctalEscape(src, i) ==
    LET d1 == DigitValue(At(src, i))
        d2 == DigitValue(At(src, i + 1))
        d3 == DigitValue(At(src, i + 2))
    IN  IF At(src, i + 1) \notin OctalDigits
        THEN [error |-> FALSE, code |-> d1, next |-> i + 1]
        ELSE IF d1 > 3 \/ At(src, i + 2) \notin OctalDigits
        THEN [error |-> FALSE, code |-> 8 * d1 + d2, next |-> i + 2]
        ELSE [error |-> FALSE, code |-> 64 * d1 + 8 * d2 + d3, next |-> i + 3]

\* CharacterEscape at position i (the backslash), in or outside a character
\* class: the code of the character it denotes and the position behind it.
\* A 'c' without its control letter leaves the backslash to stand for
\* itself; \x and \u without their hexadecimal digits, and every other
\* character, stand for themselves.
CharacterEscape(src, i, inClass) ==
    LET e == At(src, i + 1)
        Code(n, next) == [error |-> FALSE, code |-> n, next |-> next]
        Hex(k) == \A j \in 1..k : At(src, i + 1 + j) \in HexDigits
        H(j) == HexValue(At(src, i + 1 + j))
    IN  IF e = "" THEN [error |-> TRUE, code |-> 0, next |-> 0]
        ELSE IF e = "t" THEN Code(9, i + 2)
        ELSE IF e = "n" THEN Code(10, i + 2)
        ELSE IF e = "v" THEN Code(11, i + 2)
        ELSE IF e = "f" THEN Code(12, i + 2)
        ELSE IF e = "r" THEN Code(13, i + 2)
        ELSE IF e \in OctalDigits THEN OctalEscape(src, i + 1)
        ELSE IF e = "c"
             THEN IF \/ At(src, i + 2) \in UpperLetters \cup LowerLetters
                     \/ inClass /\ At(src, i + 2) \in Digits \cup {"_"}
                  THEN Code(CharCode(At(src, i + 2)) % 32, i + 3)
                  ELSE Code(92, i + 1)
        ELSE IF e = "x" /\ Hex(2) THEN Code(16 * H(1) + H(2), i + 4)
        ELSE IF e = "u" /\ Hex(4)
             THEN Code(4096 * H(1) + 256 * H(2) + 16 * H(3) + H(4), i + 6)
        ELSE Code(CharCode(e), i + 2)

\* one member of a character class: a character, as the range from it to
\* itself, or a class escape
ClassAtom(src, i) ==
    LET Single(r) == [error |-> r.error, set |-> "", lo |-> r.code, hi |-> r.code,
                      next |-> r.next]
    IN  IF At(src, i) = "\\"
        THEN IF At(src, i + 1) \in ClassEscapes
             THEN [error |-> FALSE, set |-> At(src, i + 1), lo |-> 0, hi |-> 0,
                   next |-> i + 2]
             ELSE IF At(src, i + 1) = "b"
             THEN [error |-> FALSE, set |-> "", lo |-> 8, hi |-> 8, next |-> i + 2]
             ELSE Single(CharacterEscape(src, i, TRUE))
        ELSE [error |-> FALSE, set |-> "", lo |-> CharCode(At(src, i)),
              hi |-> CharCode(At(src, i)), next |-> i + 1]

\* the members of a character class from a position up to the closing ']'
RECURSIVE ParseClassItems(_, _, _, _)
ParseClassItems(src, i, negated, items) ==
    LET ClassItem(x) == [set |-> x.set, lo |-> x.lo, hi |-> x.hi]
        \* ClassAtom '-' ClassAtom: a range, or three members when either
        \* side is a class escape
        Range(a, b) ==
            IF b.error THEN ParseError
            ELSE IF a.set # "" \/ b.set # ""
                 THEN ParseClassItems(src, b.next, negated,
                          items \o <<ClassItem(a),
                                     [set |-> "", lo |-> 45, hi |-> 45],
                                     ClassItem(b)>>)
            ELSE IF a.lo > b.lo THEN ParseError
            ELSE ParseClassItems(src, b.next, negated,
                     Append(items, [set |-> "", lo |-> a.lo, hi |-> b.lo]))
        Member(a) ==
            IF a.error THEN ParseError
            ELSE IF At(src, a.next) = "-" /\ At(src, a.next + 1) \notin {"", "]"}
                 THEN Range(a, ClassAtom(src, a.next + 1))
            ELSE ParseClassItems(src, a.next, negated, Append(items, ClassItem(a)))
    IN  IF At(src, i) = "" THEN ParseError
        ELSE IF At(src, i) = "]"
             THEN Parsed([t |-> "class", negated |-> negated, items |-> items], i + 1)
        ELSE Member(ClassAtom(src, i))

ParseClass(src, i) ==
    IF At(src, i + 1) = "^" THEN ParseClassItems(src, i + 2, TRUE, <<>>)
    ELSE ParseClassItems(src, i + 1, FALSE, <<>>)

\* an escape outside a character class: a class escape, a word boundary,
\* a DecimalEscape that is a back reference when the pattern has a group of
\* that number, or a CharacterEscape
ParseEscape(src, i) ==
    LET e == At(src, i + 1)
        Character(r) ==
            IF r.error THEN ParseError
            ELSE Parsed([t |-> "code", code |-> r.code], r.next)
        Decimal(ds) ==
            IF DecimalValue(ds, 0) <= CaptureCount(src, Len(src))
            THEN Parsed([t |-> "backref", index |-> DecimalValue(ds, 0)],
                        i + 1 + Len(ds))
            ELSE Character(CharacterEscape(src, i, FALSE))
    IN  IF e \in ClassEscapes
        THEN Parsed([t |-> "class", negated |-> FALSE,
                     items |-> <<[set |-> e, lo |-> 0, hi |-> 0]>>], i + 2)
        ELSE IF e = "b" THEN Parsed([t |-> "boundary", negated |-> FALSE], i + 2)
        ELSE IF e = "B" THEN Parsed([t |-> "boundary", negated |-> TRUE], i + 2)
        ELSE IF e \in Digits \ {"0"}
             THEN Decimal(DigitRun(SubSeq(src, i + 1, Len(src))))
        ELSE Character(CharacterEscape(src, i, FALSE))

RECURSIVE ParseDisjunction(_, _, _)
RECURSIVE ParseAlternative(_, _, _)
RECURSIVE ParseTerm(_, _)
RECURSIVE ParseAtom(_, _)

\* Atom, and the assertions '^' and '$'
ParseAtom(src, i) ==
    LET Group(d) ==
            IF d.error \/ At(src, d.next) # ")" THEN ParseError
            ELSE Parsed([t |-> "group", index |-> CaptureCount(src, i),
                         body |-> d.node], d.next + 1)
        Atom(ch) ==
            IF ch = "^" THEN Parsed([t |-> "bol"], i + 1)
            ELSE IF ch = "$" THEN Parsed([t |-> "eol"], i + 1)
            ELSE IF ch \in {"*", "+", "?"} THEN ParseError
            ELSE IF ch = "{"
                 THEN IF BraceQuantifier(src, i).found THEN ParseError
                      ELSE Parsed([t |-> "char", c |-> ch], i + 1)
            ELSE IF ch = "." THEN Parsed([t |-> "any"], i + 1)
            ELSE IF ch = "(" THEN Group(ParseDisjunction(src, i + 1, <<>>))
            ELSE IF ch = "[" THEN ParseClass(src, i)
            ELSE IF ch = "\\" THEN ParseEscape(src, i)
            ELSE Parsed([t |-> "char", c |-> ch], i + 1)
    IN  Atom(At(src, i))

\* Term: an assertion, or an atom with the quantifier that may follow it
ParseTerm(src, i) ==
    LET Quantified(a, q) ==
            IF q.error THEN ParseError
            ELSE IF q.found
                 THEN Parsed([t |-> "rep", atom |-> a.node, min |-> q.min,
                              max |-> q.max,
                              lo |-> CaptureCount(src, i - 1) + 1,
                              hi |-> CaptureCount(src, a.next - 1)], q.next)
            ELSE a
        Term(a) ==
            IF a.error THEN ParseError
            ELSE IF a.node.t \in {"bol", "eol", "boundary"} THEN a
            ELSE Quantified(a, ParseQuantifier(src, a.next))
    IN  Term(ParseAtom(src, i))

\* Alternative: the terms up to a '|', a ')' or the end
ParseAlternative(src, i, terms) ==
    LET Rest(term) ==
            IF term.error THEN ParseError
            ELSE ParseAlternative(src, term.next, Append(terms, term.node))
    IN  IF At(src, i) \in {"", "|", ")"} THEN Parsed(terms, i)
        ELSE Rest(ParseTerm(src, i))

\* Disjunction: alternatives separated by '|'
ParseDisjunction(src, i, alts) ==
    LET Rest(a) ==
            IF a.error THEN ParseError
            ELSE IF At(src, a.next) = "|"
                 THEN ParseDisjunction(src, a.next + 1, Append(alts, a.node))
            ELSE Parsed([t |-> "alt", alts |-> Append(alts, a.node)], a.next)
    IN  Rest(ParseAlternative(src, i, <<>>))

\* new RegExp(source): the parsed pattern with the number of its capturing
\* groups, or the SyntaxError of a source that is no pattern (a ')' without
\* its '(' ends the parse early)
RegExpCompile(src) ==
    LET Whole(d) ==
            IF d.error \/ d.next <= Len(src)
            THEN [error |-> TRUE, node |-> ParseError.node, next |-> 0, groups |-> 0]
            ELSE [error |-> FALSE, node |-> d.node, next |-> d.next,
                  groups |-> CaptureCount(src, Len(src))]
    IN  Whole(ParseDisjunction(src, 1, <<>>))

RegExpThrows(src) == RegExpCompile(src).error

WordChar(ch) ==
    ch \in UpperLetters \cup LowerLetters \cup Digits \cup {"_"}

InClass(node, ch) ==
    LET InClassSet(set, c) ==
            IF set = "d" THEN c \in Digits
            ELSE IF set = "D" THEN c \notin Digits
            ELSE IF set = "s" THEN c \in WhiteSpace
            ELSE IF set = "S" THEN c \notin WhiteSpace
            ELSE IF set = "w" THEN WordChar(c)
            ELSE ~WordChar(c)
    IN  node.negated #
        (\E k \in 1..Len(node.items) :
            IF node.items[k].set # "" THEN InClassSet(node.items[k].set, ch)
            ELSE /\ node.items[k].lo <= CharCode(ch)
                 /\ CharCode(ch) <= node.items[k].hi)

\* whether a word character stands at a position of the subject
WordAt(s, i) == i >= 1 /\ i <= Len(s) /\ WordChar(s[i])

\* a state of the matcher: the position it stands at and what the groups
\* captured, as (first position, position behind); (0, 0) while a group
\* captured nothing
StartStates(s, groups) ==
    {[pos |-> i, caps |-> [k \in 1..groups |-> <<0, 0>>]] : i \in 1..(Len(s) + 1)}

\* RepeatMatcher, step 4: an iteration starts with the captures of the
\* groups inside the atom undefined
ClearCaptures(x, lo, hi) ==
    [x EXCEPT !.caps = [k \in DOMAIN x.caps |->
                           IF k >= lo /\ k <= hi THEN <<0, 0>> ELSE x.caps[k]]]

\* the text a back reference stands for: empty while the group is undefined
Captured(s, x, index) ==
    IF x.caps[index][1] = x.caps[index][2] THEN <<>>
    ELSE SubSeq(s, x.caps[index][1], x.caps[index][2] - 1)

\* whether the text t stands in s at position i
StandsAt(s, i, t) ==
    \/ t = <<>>
    \/ i + Len(t) - 1 <= Len(s) /\ SubSeq(s, i, i + Len(t) - 1) = t

\* the state n characters further on
Advance(x, n) == [pos |-> x.pos + n, caps |-> x.caps]

RECURSIVE MatchNode(_, _, _)
RECURSIVE MatchSeq(_, _, _, _)
RECURSIVE RepeatExactly(_, _, _, _)
RECURSIVE RepeatUpTo(_, _, _, _, _)

\* the states behind the matches of a node that start at a state of the
\* set from.  The matcher of the engine backtracks through every way to
\* match, so that test finds a match exactly when some way exists.
MatchNode(node, s, from) ==
    IF node.t = "char"
    THEN {Advance(x, 1) : x \in {y \in from : y.pos <= Len(s) /\ s[y.pos] = node.c}}
    ELSE IF node.t = "code"
         THEN {Advance(x, 1) :
                  x \in {y \in from : y.pos <= Len(s) /\ CharCode(s[y.pos]) = node.code}}
    ELSE IF node.t = "any"
         THEN {Advance(x, 1) :
                  x \in {y \in from : y.pos <= Len(s) /\ s[y.pos] \notin {"\n", "\r"}}}
    ELSE IF node.t = "class"
         THEN {Advance(x, 1) :
                  x \in {y \in from : y.pos <= Len(s) /\ InClass(node, s[y.pos])}}
    ELSE IF node.t = "bol" THEN {x \in from : x.pos = 1}
    ELSE IF node.t = "eol" THEN {x \in from : x.pos = Len(s) + 1}
    ELSE IF node.t = "boundary"
         THEN {x \in from : node.negated = (WordAt(s, x.pos - 1) = WordAt(s, x.pos))}
    ELSE IF node.t = "backref"
         THEN {Advance(x, Len(Captured(s, x, node.index))) :
                  x \in {y \in from : StandsAt(s, y.pos, Captured(s, y, node.index))}}
    ELSE IF node.t = "group"
         THEN UNION {{[pos |-> y.pos,
                       caps |-> [y.caps EXCEPT ![node.index] = <<x.pos, y.pos>>]] :
                         y \in MatchNode(node.body, s, {x})} : x \in from}
    ELSE IF node.t = "alt"
         THEN UNION {MatchSeq(node.alts[k], 1, s, from) : k \in 1..Len(node.alts)}
    ELSE RepeatUpTo(node, IF node.max < 0 THEN -1 ELSE node.max - node.min, s,
                    RepeatExactly(node, node.min, s, from), {})

\* the terms of an alternative from the k-th on, one after the other
MatchSeq(terms, k, s, from) ==
    IF k > Len(terms) \/ from = {} THEN from
    ELSE MatchSeq(terms, k + 1, s, MatchNode(terms[k], s, from))

\* the n iterations a quantifier requires; each may match the empty text
RepeatExactly(rep, n, s, from) ==
    IF n = 0 \/ from = {} THEN from
    ELSE RepeatExactly(rep, n - 1, s,
             MatchNode(rep.atom, s,
                       {ClearCaptures(x, rep.lo, rep.hi) : x \in from}))

\* at most n further iterations, any number when n is negative, from the
\* states of the frontier; an iteration that matches the empty text fails
\* (RepeatMatcher, step 2.a).  The result is the frontier, the states
\* reached and those of reached.
RepeatUpTo(rep, n, s, frontier, reached) ==
    LET Further(new) ==
            RepeatUpTo(rep, IF n < 0 THEN n ELSE n - 1, s,
                       new \ (frontier \cup reached), frontier \cup reached)
    IN  IF n = 0 \/ frontier = {} THEN frontier \cup reached
        ELSE Further(UNION {{y \in MatchNode(rep.atom, s,
                                       {ClearCaptures(x, rep.lo, rep.hi)}) :
                                y.pos # x.pos} : x \in frontier})

\* RegExp.prototype.test of a compiled pattern: a match starting anywhere
\* in the subject
RegexTest(regex, s) ==
    /\ ~regex.error
    /\ MatchNode(regex.node, s, StartStates(s, regex.groups)) # {}

\* ------------------------------------------------------------ stored data

\* this.manifest is a value: `loaded` tells whether it is truthy, `kind`
\* whether it is null, a falsy value (false, 0, ""), a truthy value that has
\* no chunks property ({}, [], true, 1), or a manifest, that is, a value
\* whose chunks can be read by length
NoManifest == [loaded |-> FALSE, kind |-> "null", chunkCount |-> 0, chunks |-> <<>>]

FalsyManifest == [loaded |-> FALSE, kind |-> "falsy", chunkCount |-> 0, chunks |-> <<>>]

ValueManifest == [loaded |-> TRUE, kind |-> "value", chunkCount |-> 0, chunks |-> <<>>]

\* a manifest whose chunks property holds nothing under any length, as
\* {"chunks": {}} and {"chunks": 5} do; it has no chunkCount, which only
\* the log line of line 40 reads
EmptyManifest == [loaded |-> TRUE, kind |-> "manifest", chunkCount |-> 0, chunks |-> <<>>]

ManifestKey == "chunked-indexes/manifest.json"

\* manifest.chunks as the bucket stores it: per length, the buckets in
\* property order (bucket, shard file name)
SmallManifest ==
    [loaded |-> TRUE, kind |-> "manifest", chunkCount |-> 3, chunks |-> <<
        [length |-> 2, buckets |-> << <<"A", "chunk_2_A.json">>,
                                      <<"B", "chunk_2_B.json">>,
                                      <<"_", "chunk_2__.json">> >>] >>]

AM(a, n) == [answer |-> a, count |-> n]

\* an AnswerMatch object: every JSON.parse of a shard creates new objects,
\* `obj` names the parse that created this one
IsObject(a) == DOMAIN a = {"answer", "count", "obj"}

\* the value an element holds, whichever object it is
Value(a) == IF IsObject(a) THEN AM(a.answer, a.count) ELSE a

Values(matches) == [i \in 1..Len(matches) |-> Value(matches[i])]

\* an element of chunk.answers that is null
NullEntry == [null |-> TRUE]

IsNull(a) == "null" \in DOMAIN a

\* an element of chunk.answers that is a primitive value, such as a character
\* of a string
Primitive(v) == [value |-> v]

\* answer.answer as regex.test receives it: a property the element does not
\* have is undefined, which test converts to the text "undefined"
AnswerText(a) ==
    IF "answer" \in DOMAIN a THEN a.answer
    ELSE <<"u", "n", "d", "e", "f", "i", "n", "e", "d">>

\* a.count as the comparison of the sort reads it
CountOf(a) == IF "count" \in DOMAIN a THEN a.count ELSE NaN

\* a parsed value is kept as it was parsed: `wellFormed` tells whether its
\* answers can be iterated, `hasClues` whether its clues can be read by
\* answer.  NoChunk is a value with neither, as {} and null are
NoChunk == [wellFormed |-> FALSE, hasClues |-> FALSE, answers |-> <<>>, clues |-> <<>>]

\* the decoded content of each shard object: the answers sorted by count, as
\* built, and the clue lists as (answer, clues) pairs in property order
ChunkData(fileName) ==
    CASE fileName = "chunk_2_A.json" ->
            [wellFormed |-> TRUE, hasClues |-> TRUE,
             answers |-> << AM(<<"A","A">>, 5), AM(<<"A","B">>, 3),
                            AM(<<"A","C">>, 1) >>,
             clues |-> << << <<"A","A">>, <<"a", "a", "b">> >>,
                          << <<"A","B">>, <<"c", "d", "c">> >>,
                          << <<"A","C">>, <<"e">> >> >>]
      [] fileName = "chunk_2_B.json" ->
            [wellFormed |-> TRUE, hasClues |-> TRUE,
             answers |-> << AM(<<"B","A">>, 9), AM(<<"B","B">>, 3) >>,
             clues |-> << << <<"B","A">>, <<"f", "f">> >>,
                          << <<"B","B">>, <<"g">> >> >>]
      [] fileName = "chunk_2__.json" ->
            [wellFormed |-> TRUE, hasClues |-> TRUE,
             answers |-> << AM(<<"-","A">>, 7) >>,
             clues |-> << << <<"-","A">>, <<"h">> >> >>]
      [] OTHER -> [wellFormed |-> TRUE, hasClues |-> TRUE, answers |-> <<>>,
                   clues |-> <<>>]

\* ------------------------------------------------ manifest-driven selection

\* this.manifest.chunks[length]: the buckets registered for a length
\* (none when the length has no entry)
LengthChunks(man, length) ==
    IF \E i \in 1..Len(man.chunks) : man.chunks[i].length = length
    THEN man.chunks[CHOOSE i \in 1..Len(man.chunks) : man.chunks[i].length = length].buckets
    ELSE <<>>

\* Object.values(lengthChunks)
ObjectValues(lengthChunks) == [i \in 1..Len(lengthChunks) |-> lengthChunks[i][2]]

\* lengthChunks[bucket] as a list: the file name when the bucket holds a
\* truthy one, that is, exists and does not name the empty string
BucketFile(lengthChunks, bucket) ==
    ObjectValues(SelectSeq(lengthChunks, LAMBDA e : e[1] = bucket /\ e[2] # ""))

\* a selection that looks the first character up as it is
getRelevantChunks_Unsanitized(man, pattern) ==
    IF ~man.loaded THEN <<>>
    ELSE IF pattern[1] # "?"
         THEN BucketFile(LengthChunks(man, Len(pattern)), pattern[1])
         ELSE ObjectValues(LengthChunks(man, Len(pattern)))

\* a selection that lists every candidate a second time
getRelevantChunks_Twice(man, pattern) ==
    IF ~man.loaded THEN <<>>
    ELSE IF pattern[1] # "?"
         THEN BucketFile(LengthChunks(man, Len(pattern)), cleanFirstChar(pattern[1]))
              \o BucketFile(LengthChunks(man, Len(pattern)), cleanFirstChar(pattern[1]))
         ELSE ObjectValues(LengthChunks(man, Len(pattern)))
              \o ObjectValues(LengthChunks(man, Len(pattern)))

\* this.manifest.chunks[length], this.manifest?.chunks[length]: a value
\* that is not null and has no chunks property raises a TypeError
ManifestChunksThrows(man) == man.kind \in {"falsy", "value"}

\* lines 88 and 96/103: a falsy manifest returns at once, any other value
\* has its chunks read
getRelevantChunksThrows(man) == man.loaded /\ ManifestChunksThrows(man)

\* line 97, and line 262 of getClues: the first character of an empty text
\* is undefined, and undefined.replace raises a TypeError
FirstCharThrows(text) == text = <<>>

getRelevantChunks(man, pattern) ==
    IF ~man.loaded THEN <<>>
    ELSE IF pattern[1] # "?"
         THEN BucketFile(LengthChunks(man, Len(pattern)), cleanFirstChar(pattern[1]))
         ELSE ObjectValues(LengthChunks(man, Len(pattern)))

\* the indices of a sequence that satisfy a test, ascending
RECURSIVE PositionsFrom(_, _)
PositionsFrom(pattern, i) ==
    IF i > Len(pattern) THEN <<>>
    ELSE IF pattern[i] = "?" THEN <<i - 1>> \o PositionsFrom(pattern, i + 1)
    ELSE PositionsFrom(pattern, i + 1)

\* an analysis that already counts a wildcard ratio of 0.6 as high cost
analyzePattern_RatioInclusive(pattern) ==
    LET wildcardPositions == PositionsFrom(pattern, 1)
        wildcardCount == Len(wildcardPositions)
        startsWithWildcard == pattern # <<>> /\ pattern[1] = "?"
    IN  [wildcardCount |-> wildcardCount,
         wildcardPositions |-> wildcardPositions,
         startsWithWildcard |-> startsWithWildcard,
         isHighCostPattern |->
             startsWithWildcard /\
             (wildcardCount > 3 \/ 10 * wildcardCount >= 6 * Len(pattern)),
         searchStrategy |->
             IF startsWithWildcard THEN "parallel-optimized" ELSE "direct"]

analyzePattern(pattern) ==
    LET wildcardPositions == PositionsFrom(pattern, 1)
        wildcardCount == Len(wildcardPositions)
        startsWithWildcard == pattern # <<>> /\ pattern[1] = "?"
    IN  [wildcardCount |-> wildcardCount,
         wildcardPositions |-> wildcardPositions,
         startsWithWildcard |-> startsWithWildcard,
         \* wildcardCount / pattern.length > 0.6, in integers
         isHighCostPattern |->
             startsWithWildcard /\
             (wildcardCount > 3 \/ 10 * wildcardCount > 6 * Len(pattern)),
         searchStrategy |->
             IF startsWithWildcard THEN "parallel-optimized" ELSE "direct"]

\* ------------------------------------------------------------- shard cache

ChunkCacheHas(cache, fileName) ==
    \E i \in 1..Len(cache) : cache[i].fileName = fileName

ChunkCacheGet(cache, fileName) ==
    cache[CHOOSE i \in 1..Len(cache) : cache[i].fileName = fileName].chunk

\* Map.prototype.set: a present key keeps its position
ChunkCacheSet(cache, fileName, chunk) ==
    IF ChunkCacheHas(cache, fileName)
    THEN [i \in 1..Len(cache) |->
            IF cache[i].fileName = fileName
            THEN [fileName |-> fileName, chunk |-> chunk] ELSE cache[i]]
    ELSE Append(cache, [fileName |-> fileName, chunk |-> chunk])

\* an eviction that already triggers at the limit
ChunkCacheEvict_AtLimit(cache) ==
    IF Len(cache) >= MAX_CHUNK_CACHE_SIZE /\ Head(cache).fileName # ""
    THEN Tail(cache) ELSE cache

\* "Keep cache size reasonable (max 10 chunks)": the first key is deleted
\* when it is truthy, that is, not the empty string
ChunkCacheEvict(cache) ==
    IF Len(cache) > MAX_CHUNK_CACHE_SIZE /\ Head(cache).fileName # ""
    THEN Tail(cache) ELSE cache

\* loadChunk after a successful fetch: insert, then evict
ChunkCacheStore(cache, fileName, chunk) ==
    ChunkCacheEvict(ChunkCacheSet(cache, fileName, chunk))

\* a load that issues a get whether the shard is cached or not
LoadChunkBegin_AlwaysFetch(cache, fileName) ==
    [fileName |-> fileName, status |-> "pending", chunk |-> NoChunk]

\* loadChunk up to its first await: a cached shard resolves at once, any
\* other issues a get and stays pending
LoadChunkBegin(cache, fileName) ==
    IF ChunkCacheHas(cache, fileName)
    THEN [fileName |-> fileName, status |-> "fulfilled",
          chunk |-> ChunkCacheGet(cache, fileName)]
    ELSE [fileName |-> fileName, status |-> "pending", chunk |-> NoChunk]

\* ------------------------------------------------------------ result cache

getCacheKey(pattern) == <<"pattern:">> \o toUpperCase(pattern)

ResultCacheHas(cache, key) == \E i \in 1..Len(cache) : cache[i].key = key

ResultCacheEntry(cache, key) ==
    cache[CHOOSE i \in 1..Len(cache) : cache[i].key = key]

ResultCacheDelete(cache, key) == SelectSeq(cache, LAMBDA e : e.key # key)

\* a TTL test that already expires an entry aged exactly the TTL
IsExpired_Inclusive(timestamp, t) == t - timestamp >= CACHE_TTL

\* a TTL test that never expires an entry
IsExpired_Never(timestamp, t) == FALSE

\* the TTL test of getCachedResult
IsExpired(timestamp, t) == t - timestamp > CACHE_TTL

\* a read that reports a stale entry as a miss and leaves it in the cache
getCachedResult_KeepStale(cache, pattern, t) ==
    LET cacheKey == getCacheKey(pattern) IN
    IF ~ResultCacheHas(cache, cacheKey)
    THEN [hit |-> FALSE, results |-> <<>>, cache |-> cache, timestamp |-> -1]
    ELSE LET cached == ResultCacheEntry(cache, cacheKey) IN
         [hit |-> ~IsExpired(cached.timestamp, t),
          results |-> IF IsExpired(cached.timestamp, t) THEN <<>> ELSE cached.results,
          cache |-> cache, timestamp |-> cached.timestamp]

\* getCachedResult: what it returns (hit, results) and the cache it leaves
getCachedResult(cache, pattern, t) ==
    LET cacheKey == getCacheKey(pattern) IN
    IF ~ResultCacheHas(cache, cacheKey)
    THEN [hit |-> FALSE, results |-> <<>>, cache |-> cache, timestamp |-> -1]
    ELSE LET cached == ResultCacheEntry(cache, cacheKey) IN
         IF IsExpired(cached.timestamp, t)
         THEN [hit |-> FALSE, results |-> <<>>,
               cache |-> ResultCacheDelete(cache, cacheKey),
               timestamp |-> cached.timestamp]
         ELSE [hit |-> TRUE, results |-> cached.results, cache |-> cache,
               timestamp |-> cached.timestamp]

\* an eviction that waits until the cache is over its limit
ResultCacheEvict_Late(cache) ==
    IF Len(cache) > MAX_RESULT_CACHE_SIZE /\ Head(cache).key # <<>>
    THEN Tail(cache) ELSE cache

\* "Keep cache size reasonable": drop the oldest entry of a full cache, its
\* key being truthy
ResultCacheEvict(cache) ==
    IF Len(cache) >= MAX_RESULT_CACHE_SIZE /\ Head(cache).key # <<>>
    THEN Tail(cache) ELSE cache

\* a put that evicts only when the key is new and the cache is full
setCachedResult_IfGrowing(cache, pattern, results, t) ==
    LET cacheKey == getCacheKey(pattern)
        entry == [key |-> cacheKey, results |-> results, timestamp |-> t]
    IN  IF ResultCacheHas(cache, cacheKey)
        THEN [i \in 1..Len(cache) |-> IF cache[i].key = cacheKey THEN entry ELSE cache[i]]
        ELSE Append(ResultCacheEvict(cache), entry)

setCachedResult(cache, pattern, results, t) ==
    LET cacheKey == getCacheKey(pattern)
        kept == ResultCacheEvict(cache)
        entry == [key |-> cacheKey, results |-> results, timestamp |-> t]
    IN  IF ResultCacheHas(kept, cacheKey)
        THEN [i \in 1..Len(kept) |-> IF kept[i].key = cacheKey THEN entry ELSE kept[i]]
        ELSE Append(kept, entry)

\* ----------------------------------------------------- scanning and ranking

\* the comparator (a, b) => b.count - a.count as the sort reads it: a
\* difference that is NaN, of an element without a count, counts as 0
CompareCount(a, b) ==
    IF CountOf(a) = NaN \/ CountOf(b) = NaN THEN 0 ELSE CountOf(b) - CountOf(a)

\* Array.prototype.sort of V8, the engine of the worker and of the build
\* script, for a list of fewer than 64 elements: the run the list starts
\* with, reversed when it descends, and the other elements placed one by
\* one by binary insertion.  Under a comparator that orders the elements
\* (every element has a count) this is the stable sort the language
\* requires, for a list of any length; under elements without a count
\* the order depends on these very comparisons.

\* the place of x in the list sorted so far, between left and right
\* (counted from 0, right excluded)
RECURSIVE InsertionPoint(_, _, _, _)
InsertionPoint(sorted, x, left, right) ==
    LET Halve(mid) ==
            IF CompareCount(x, sorted[mid + 1]) < 0
            THEN InsertionPoint(sorted, x, left, mid)
            ELSE InsertionPoint(sorted, x, mid + 1, right)
    IN  IF left >= right THEN left ELSE Halve(left + (right - left) \div 2)

\* binary insertion of one element
InsertByCount(sorted, x) ==
    LET Place(k) == SubSeq(sorted, 1, k) \o <<x>> \o SubSeq(sorted, k + 1, Len(sorted))
    IN  Place(InsertionPoint(sorted, x, 0, Len(sorted)))

\* the last element of the run that s starts with, from the k-th element
\* on: a descending run ends before an element that does not compare
\* before its predecessor, another run before one that does
RECURSIVE RunEnd(_, _, _)
RunEnd(s, k, descending) ==
    IF k > Len(s) THEN Len(s)
    ELSE IF (CompareCount(s[k], s[k - 1]) < 0) = descending
         THEN RunEnd(s, k + 1, descending)
         ELSE k - 1

RECURSIVE InsertFrom(_, _, _)
InsertFrom(sorted, s, k) ==
    IF k > Len(s) THEN sorted
    ELSE InsertFrom(InsertByCount(sorted, s[k]), s, k + 1)

\* results.sort((a, b) => b.count - a.count)
SortByCountDesc(s) ==
    LET descending == CompareCount(s[2], s[1]) < 0
        Run(n) == IF descending THEN [i \in 1..n |-> s[n + 1 - i]]
                  ELSE SubSeq(s, 1, n)
        Sorted(n) == InsertFrom(Run(n), s, n + 1)
    IN  IF Len(s) < 2 THEN s ELSE Sorted(RunEnd(s, 3, descending))

\* a ranking that leaves the matches in scan order
SortAndLimit_Unsorted(results, maxResults) == Slice(results, maxResults)

\* .sort(...).slice(0, maxResults)
SortAndLimit(results, maxResults) == Slice(SortByCountDesc(results), maxResults)

\* a scan that stops at the first answer the matcher accepts
ScanAll_FirstMatch(answers, re) ==
    Slice(SelectSeq(answers, LAMBDA a : ~IsNull(a) /\ RegexTest(re, AnswerText(a))), 1)

\* lines 210-214 under the catch of line 215: the direct strategy's scan of
\* one shard pushes every answer the matcher accepts; reading the answer of
\* a null element raises a TypeError that ends the scan of the shard and
\* leaves what was pushed
RECURSIVE ScanAll(_, _)
ScanAll(answers, re) ==
    IF answers = <<>> THEN <<>>
    ELSE IF IsNull(Head(answers)) THEN <<>>
    ELSE IF RegexTest(re, AnswerText(Head(answers)))
         THEN <<Head(answers)>> \o ScanAll(Tail(answers), re)
         ELSE ScanAll(Tail(answers), re)

\* a threshold of three times the limit
EarlyStopLimit_Triple(maxResults) ==
    IF maxResults = NaN THEN NaN ELSE maxResults * 3

\* the early-stopping threshold of the parallel strategy
EarlyStopLimit(maxResults) ==
    IF maxResults = NaN THEN NaN ELSE maxResults * 2

\* a scan that tests the limit only when a shard is finished
ScanUntil_WholeShard(answers, k, re, acc, limit) ==
    [results |-> acc \o ScanAll(SubSeq(answers, k, Len(answers)), re),
     threw |-> \E i \in k..Len(answers) : IsNull(answers[i])]

\* lines 227-236: the parallel strategy's scan of one shard stops at the
\* push that reaches the limit; reading the answer of a null element raises
\* a TypeError
RECURSIVE ScanUntil(_, _, _, _, _)
ScanUntil(answers, k, re, acc, limit) ==
    IF k > Len(answers) THEN [results |-> acc, threw |-> FALSE]
    ELSE IF IsNull(answers[k]) THEN [results |-> acc, threw |-> TRUE]
    ELSE IF RegexTest(re, AnswerText(answers[k]))
         THEN LET pushed == Append(acc, answers[k]) IN
              IF AtLeast(Len(pushed), limit)
              THEN [results |-> pushed, threw |-> FALSE]
              ELSE ScanUntil(answers, k + 1, re, pushed, limit)
         ELSE ScanUntil(answers, k + 1, re, acc, limit)

\* the parallel strategy's loop over the loaded shards; reading the answers
\* of a value that is no shard, or the answer of a null element, raises a
\* TypeError nothing catches
RECURSIVE ScanChunks(_, _, _, _, _)
ScanChunks(chunks, k, re, st, limit) ==
    IF k > Len(chunks) THEN st
    ELSE IF ~chunks[k].chunk.wellFormed
         THEN [st EXCEPT !.threw = TRUE,
                         !.scanned = Append(st.scanned, chunks[k].fileName)]
    ELSE LET scan == ScanUntil(chunks[k].chunk.answers, 1, re, st.results, limit)
             st2 == [results |-> scan.results,
                     scanned |-> Append(st.scanned, chunks[k].fileName),
                     threw |-> scan.threw]
         IN  IF scan.threw \/ AtLeast(Len(scan.results), limit) THEN st2
             ELSE ScanChunks(chunks, k + 1, re, st2, limit)

\* ------------------------------------------------------------------- calls

Callers == {1, 2}

NoLast == [outcome |-> "none", normalizedPattern |-> <<>>, hit |-> FALSE,
           checkedAt |-> 0, endedAt |-> 0, rejected |-> {}]

\* a caller with no call yet
IdleCall ==
    [pc |-> "idle", kind |-> "none", pattern |-> <<>>, maxResults |-> 0,
     answer |-> <<>>, maxClues |-> 0, clues |-> <<>>,
     normalizedPattern |-> <<>>, searchStrategy |-> "none",
     relevantChunks |-> <<>>, loads |-> <<>>, results |-> <<>>,
     scanned |-> <<>>, gets |-> <<>>, hit |-> FALSE, returned |-> <<>>,
     error |-> "none", startedAt |-> 0, checkedAt |-> 0, endedAt |-> 0,
     cachedTimestamp |-> -1, cachedAtCheck |-> {}, last |-> NoLast, id |-> 0]

Finished(call) == call.pc \in {"returned", "threw", "cluesReturned"}

LastOf(call) ==
    IF Finished(call)
    THEN [outcome |-> call.pc, normalizedPattern |-> call.normalizedPattern,
          hit |-> call.hit, checkedAt |-> call.checkedAt, endedAt |-> call.endedAt,
          rejected |-> {call.loads[i].fileName :
                           i \in {j \in 1..Len(call.loads) :
                                      call.loads[j].status = "rejected"}}]
    ELSE call.last

\* a collection of the loads that gives up at the first failed one
RECURSIVE FulfilledChunks_UntilRejected(_)
FulfilledChunks_UntilRejected(loads) ==
    IF loads = <<>> \/ Head(loads).status # "fulfilled" THEN <<>>
    ELSE <<Head(loads)>> \o FulfilledChunks_UntilRejected(Tail(loads))

\* a collection of the fulfilled loads that starts from the last candidate
FulfilledChunks_Reversed(loads) ==
    LET fulfilled == SelectSeq(loads, LAMBDA l : l.status = "fulfilled")
    IN  [i \in 1..Len(fulfilled) |-> fulfilled[Len(fulfilled) + 1 - i]]

\* lines 82-84: the values of the loads that were fulfilled, in the order of
\* the candidate list
FulfilledChunks(loads) == SelectSeq(loads, LAMBDA l : l.status = "fulfilled")

\* the file names whose load issued a storage get, in order
PendingFiles(loads) ==
    LET pending == SelectSeq(loads, LAMBDA l : l.status = "pending")
    IN  [i \in 1..Len(pending) |-> pending[i].fileName]

\* lines 247-253: rank, limit, store in the result cache, return
Finish(call, results, cache, log, t) ==
    LET sortedResults == SortAndLimit(results, call.maxResults) IN
    [call |-> [call EXCEPT !.pc = "returned", !.results = results,
                           !.returned = sortedResults, !.endedAt = t],
     resultCache |-> setCachedResult(cache, call.normalizedPattern, sortedResults, t),
     putLog |-> Append(log, getCacheKey(call.normalizedPattern))]

\* ----------------------------------------------------------------- actions

\* findMatchingAnswers is called; loadManifest runs to its first await
Start(c, pattern, maxResults) ==
    /\ (calls[c].pc = "idle" \/ Finished(calls[c]))
    /\ nCalls' = nCalls + 1
    /\ LET fresh == [IdleCall EXCEPT !.kind = "findMatchingAnswers",
                                     !.pattern = pattern,
                                     !.maxResults = maxResults,
                                     !.startedAt = now,
                                     !.id = nCalls + 1,
                                     !.last = LastOf(calls[c])]
       IN  calls' = [calls EXCEPT ![c] =
               IF manifest.loaded
               THEN [fresh EXCEPT !.pc = "manifestLoaded"]
               ELSE [fresh EXCEPT !.pc = "loadManifest", !.gets = <<ManifestKey>>]]
    /\ UNCHANGED <<response, build, manifest, chunkCache, resultCache, now, dataBucket,
                   insertLog, putLog, ticks, probe>>

\* how the manifest get settles: the object holds the manifest ("ok"), a
\* value whose chunks register no length ("nolengths"), a falsy JSON value
\* other than null ("falsy"), a truthy JSON value without chunks
\* ("notmanifest"), the JSON value null ("null"), is not found ("missing"),
\* the get rejects ("error"), or the text does not parse ("badjson")
ManifestOutcomes ==
    {"ok", "nolengths", "falsy", "notmanifest", "null", "missing", "error", "badjson"}

\* the outcomes with which lines 36-40 complete
ManifestParses == {"ok", "nolengths", "falsy", "notmanifest"}

\* the outcomes with which line 39 assigns: after the text null, line 40
\* reads chunkCount of null and raises the TypeError that line 43 rethrows
ManifestAssigns == ManifestParses \cup {"null"}

\* JSON.parse(await manifestObj.text())
ParsedManifest(stored, outcome) ==
    CASE outcome = "ok" -> stored
      [] outcome = "nolengths" -> EmptyManifest
      [] outcome = "falsy" -> FalsyManifest
      [] outcome = "null" -> NoManifest
      [] OTHER -> ValueManifest

\* a loader that installs what it received even when it reports the failure
ManifestAfterGet_InstallAnyway(man, stored, outcome) ==
    IF outcome \in ManifestAssigns THEN ParsedManifest(stored, outcome)
    ELSE IF outcome = "badjson" THEN stored ELSE man

\* lines 35-39: this.manifest after the get settled; it is assigned
\* whatever the text of a found object parsed to, null included
ManifestAfterGet(man, stored, outcome) ==
    IF outcome \in ManifestAssigns THEN ParsedManifest(stored, outcome) ELSE man

\* the manifest get settles: lines 35-44
ManifestGetReturns(c, outcome) ==
    /\ calls[c].pc = "loadManifest"
    /\ manifest' = ManifestAfterGet(manifest, dataBucket, outcome)
    /\ IF outcome \in ManifestParses
       THEN calls' = [calls EXCEPT ![c].pc = "manifestLoaded"]
       ELSE calls' = [calls EXCEPT ![c].pc = "threw",
                                   ![c].error = IF outcome = "null" THEN "chunkCount"
                                                ELSE "manifest",
                                   ![c].endedAt = now]
    /\ UNCHANGED <<response, build, chunkCache, resultCache, now, dataBucket,
                   insertLog, putLog, ticks, nCalls, probe>>

\* lines 186-224: normalise, consult the result cache, compile the matcher
\* (a SyntaxError ends the call), select the shards (a TypeError ends the
\* call when the manifest has no chunks) and start loading them
Search(c) ==
    /\ calls[c].pc = "manifestLoaded"
    /\ calls[c].kind = "findMatchingAnswers"
    /\ LET call == calls[c]
           normalizedPattern == toUpperCase(call.pattern)
           cachedResult == getCachedResult(resultCache, normalizedPattern, now)
           patternAnalysis == analyzePattern(normalizedPattern)
           relevantChunks == getRelevantChunks(manifest, normalizedPattern)
           checked == [call EXCEPT
                          !.normalizedPattern = normalizedPattern,
                          !.checkedAt = now,
                          !.cachedTimestamp = cachedResult.timestamp,
                          !.cachedAtCheck =
                              {chunkCache[i].fileName : i \in 1..Len(chunkCache)}]
           missed == [checked EXCEPT
                          !.searchStrategy = patternAnalysis.searchStrategy,
                          !.relevantChunks = relevantChunks]
       IN  IF cachedResult.hit
           THEN /\ calls' = [calls EXCEPT ![c] =
                       [checked EXCEPT !.pc = "returned", !.hit = TRUE,
                                       !.endedAt = now,
                                       !.returned = Slice(cachedResult.results,
                                                          call.maxResults)]]
                /\ resultCache' = cachedResult.cache
                /\ putLog' = putLog
           ELSE IF RegExpThrows(RegExpSource(normalizedPattern))
           THEN /\ calls' = [calls EXCEPT ![c] =
                       [checked EXCEPT !.pc = "threw", !.error = "regex",
                                       !.endedAt = now,
                                       !.searchStrategy =
                                           patternAnalysis.searchStrategy]]
                /\ resultCache' = cachedResult.cache
                /\ putLog' = putLog
           ELSE IF getRelevantChunksThrows(manifest)
           THEN /\ calls' = [calls EXCEPT ![c] =
                       [checked EXCEPT !.pc = "threw", !.error = "chunks",
                                       !.endedAt = now,
                                       !.searchStrategy =
                                           patternAnalysis.searchStrategy]]
                /\ resultCache' = cachedResult.cache
                /\ putLog' = putLog
           ELSE IF manifest.loaded /\ FirstCharThrows(normalizedPattern)
           THEN /\ calls' = [calls EXCEPT ![c] =
                       [checked EXCEPT !.pc = "threw", !.error = "firstChar",
                                       !.endedAt = now,
                                       !.searchStrategy =
                                           patternAnalysis.searchStrategy]]
                /\ resultCache' = cachedResult.cache
                /\ putLog' = putLog
           ELSE IF patternAnalysis.searchStrategy = "direct"
           THEN IF relevantChunks = <<>>
                THEN LET done == Finish(missed, <<>>, cachedResult.cache, putLog, now)
                     IN  /\ calls' = [calls EXCEPT ![c] = done.call]
                         /\ resultCache' = done.resultCache
                         /\ putLog' = done.putLog
                ELSE LET loads == <<LoadChunkBegin(chunkCache, relevantChunks[1])>>
                     IN  /\ calls' = [calls EXCEPT ![c] =
                                [missed EXCEPT !.pc = "directLoad", !.loads = loads,
                                               !.gets = call.gets \o PendingFiles(loads)]]
                         /\ resultCache' = cachedResult.cache
                         /\ putLog' = putLog
           ELSE LET loads == [i \in 1..Len(relevantChunks) |->
                                  LoadChunkBegin(chunkCache, relevantChunks[i])]
                IN  /\ calls' = [calls EXCEPT ![c] =
                           [missed EXCEPT !.pc = "parallelLoad", !.loads = loads,
                                          !.gets = call.gets \o PendingFiles(loads)]]
                    /\ resultCache' = cachedResult.cache
                    /\ putLog' = putLog
    /\ UNCHANGED <<response, build, manifest, chunkCache, now, dataBucket, insertLog, ticks,
                   nCalls, probe>>

\* how a shard get settles: the object holds the shard ("ok"), a JSON value
\* that has neither answers nor clues, as {} and null ("notshard"), the
\* shard without its answers, an object that has only the clues
\* ("cluesonly"), the shard with a null after its first answer
\* ("nullentry"), an object whose answers are the string "AB" and that has
\* no clues ("primitives"), is not found ("missing"), the get rejects
\* ("error"), or the text does not parse ("badjson")
ChunkOutcomes ==
    {"ok", "notshard", "cluesonly", "nullentry", "primitives", "missing", "error",
     "badjson"}

\* the outcomes whose text parses: line 61 stores the parsed value
ChunkParses == {"ok", "notshard", "cluesonly", "nullentry", "primitives"}

\* what JSON.parse returns for each object that parses
ParsedChunk(fileName, outcome) ==
    CASE outcome = "ok" -> ChunkData(fileName)
      [] outcome = "nullentry" ->
            LET chunk == ChunkData(fileName) IN
            [chunk EXCEPT !.answers =
                SubSeq(chunk.answers, 1, Min(1, Len(chunk.answers)))
                    \o <<NullEntry>>
                    \o SubSeq(chunk.answers, 2, Len(chunk.answers))]
      [] outcome = "primitives" ->
            [wellFormed |-> TRUE, hasClues |-> FALSE,
             answers |-> <<Primitive("A"), Primitive("B")>>, clues |-> <<>>]
      [] outcome = "cluesonly" ->
            [wellFormed |-> FALSE, hasClues |-> TRUE, answers |-> <<>>,
             clues |-> ChunkData(fileName).clues]
      [] OTHER -> NoChunk

\* the objects of one JSON.parse: the AnswerMatch elements of the parsed
\* value are objects of their own, named after the call and the load that
\* parsed them
ParsedObjects(chunk, id) ==
    [chunk EXCEPT !.answers =
        [k \in 1..Len(chunk.answers) |->
            IF DOMAIN chunk.answers[k] = {"answer", "count"}
            THEN [answer |-> chunk.answers[k].answer,
                  count |-> chunk.answers[k].count, obj |-> id]
            ELSE chunk.answers[k]]]

\* a shard get settles: lines 55-75 of loadChunk
ChunkGetReturns(c, i, outcome) ==
    /\ calls[c].pc \in {"directLoad", "parallelLoad", "cluesLoad"}
    /\ i \in 1..Len(calls[c].loads)
    /\ calls[c].loads[i].status = "pending"
    /\ LET fileName == calls[c].loads[i].fileName
           chunk == ParsedObjects(ParsedChunk(fileName, outcome),
                                  <<calls[c].id, i>>)
       IN  IF outcome \in ChunkParses
           THEN /\ chunkCache' = ChunkCacheStore(chunkCache, fileName, chunk)
                /\ insertLog' = IF ChunkCacheHas(chunkCache, fileName)
                                THEN insertLog ELSE Append(insertLog, fileName)
                /\ calls' = [calls EXCEPT ![c].loads[i].status = "fulfilled",
                                          ![c].loads[i].chunk = chunk]
           ELSE /\ chunkCache' = chunkCache
                /\ insertLog' = insertLog
                /\ calls' = [calls EXCEPT ![c].loads[i].status = "rejected"]
    /\ UNCHANGED <<response, build, manifest, resultCache, now, dataBucket, putLog, ticks,
                   nCalls, probe>>

\* lines 207-218 and 247-253: the direct strategy resumes after a load
\* settled, scans the shard (any error is caught), and loads the next shard
\* or finishes
DirectContinue(c) ==
    /\ calls[c].pc = "directLoad"
    /\ calls[c].loads[Len(calls[c].loads)].status # "pending"
    /\ LET call == calls[c]
           k == Len(call.loads)
           load == call.loads[k]
           regex == RegExpCompile(RegExpSource(call.normalizedPattern))
           results ==
               IF load.status = "fulfilled" /\ load.chunk.wellFormed
               THEN call.results \o ScanAll(load.chunk.answers, regex)
               ELSE call.results
           scanned == IF load.status = "fulfilled"
                      THEN Append(call.scanned, load.fileName) ELSE call.scanned
           after == [call EXCEPT !.results = results, !.scanned = scanned]
       IN  IF k < Len(call.relevantChunks)
           THEN LET next == LoadChunkBegin(chunkCache, call.relevantChunks[k + 1])
                IN  /\ calls' = [calls EXCEPT ![c] =
                           [after EXCEPT !.loads = Append(call.loads, next),
                                         !.gets = call.gets \o PendingFiles(<<next>>)]]
                    /\ UNCHANGED <<resultCache, putLog>>
           ELSE LET done == Finish(after, results, resultCache, putLog, now)
                IN  /\ calls' = [calls EXCEPT ![c] = done.call]
                    /\ resultCache' = done.resultCache
                    /\ putLog' = done.putLog
    /\ UNCHANGED <<response, build, manifest, chunkCache, now, dataBucket, insertLog, ticks,
                   nCalls, probe>>

\* lines 80-84 and 224-253: every load settled; the parallel strategy scans
\* the loaded shards in the order of the candidate list and finishes
ParallelContinue(c) ==
    /\ calls[c].pc = "parallelLoad"
    /\ \A i \in 1..Len(calls[c].loads) : calls[c].loads[i].status # "pending"
    /\ LET call == calls[c]
           chunks == FulfilledChunks(call.loads)
           regex == RegExpCompile(RegExpSource(call.normalizedPattern))
           st == ScanChunks(chunks, 1, regex,
                            [results |-> <<>>, scanned |-> <<>>, threw |-> FALSE],
                            EarlyStopLimit(call.maxResults))
           after == [call EXCEPT !.results = st.results, !.scanned = st.scanned]
       IN  IF st.threw
           THEN /\ calls' = [calls EXCEPT ![c] =
                       [after EXCEPT !.pc = "threw", !.error = "shard",
                                     !.endedAt = now]]
                /\ UNCHANGED <<resultCache, putLog>>
           ELSE LET done == Finish(after, st.results, resultCache, putLog, now)
                IN  /\ calls' = [calls EXCEPT ![c] = done.call]
                    /\ resultCache' = done.resultCache
                    /\ putLog' = done.putLog
    /\ UNCHANGED <<response, build, manifest, chunkCache, now, dataBucket, insertLog, ticks,
                   nCalls, probe>>

\* the clock advances
Tick(d) ==
    /\ now' = now + d
    /\ ticks' = ticks + 1
    /\ UNCHANGED <<response, build, manifest, chunkCache, resultCache, dataBucket, calls,
                   insertLog, putLog, nCalls, probe>>

NoProbe == [pattern |-> <<>>, answer |-> <<>>, accepted |-> FALSE, threw |-> FALSE,
            made |-> FALSE]

\* lines 186, 197 and 211: the matcher of a pattern applied to one answer
Probe(pattern, answer) ==
    /\ probe' = [pattern |-> pattern, answer |-> answer, made |-> TRUE,
                 threw |-> RegExpThrows(RegExpSource(toUpperCase(pattern))),
                 accepted |-> RegexTest(RegExpCompile(RegExpSource(toUpperCase(pattern))),
                                        answer)]
    /\ UNCHANGED <<response, build, manifest, chunkCache, resultCache, now, dataBucket, calls,
                   insertLog, putLog, ticks, nCalls>>

\* ---------------------------------------------------------------- handlers

NoAnalysis == [wildcardCount |-> 0, wildcardPositions |-> <<>>,
               startsWithWildcard |-> FALSE, isHighCostPattern |-> FALSE,
               searchStrategy |-> "none"]

NoResponse == [route |-> "none", status |-> 0, pattern |-> <<>>,
               maxResults |-> <<>>, analysis |-> NoAnalysis]

\* !pattern || !pattern.match(/^[A-Za-z?]+$/)
PatternInvalid(pattern) ==
    \/ pattern = <<>>
    \/ \E i \in 1..Len(pattern) :
           pattern[i] \notin UpperLetters \cup LowerLetters \cup {"?"}

\* GET /debug/pattern: the analysis of the uppercased pattern, or 400
DebugPattern(pattern) ==
    /\ response' =
           IF PatternInvalid(pattern)
           THEN [NoResponse EXCEPT !.route = "/debug/pattern", !.status = 400,
                                   !.pattern = pattern]
           ELSE [NoResponse EXCEPT !.route = "/debug/pattern", !.status = 200,
                                   !.pattern = toUpperCase(pattern),
                                   !.analysis = analyzePattern(toUpperCase(pattern))]
    /\ UNCHANGED <<build, manifest, chunkCache, resultCache, now, dataBucket, calls,
                   insertLog, putLog, ticks, nCalls, probe>>

\* GET /answers: 400 for a pattern or a limit the checks refuse, else the
\* search starts with the parsed limit
AnswersRequest(c, pattern, maxResultsText) ==
    LET maxResults == ParseInt(IF maxResultsText = <<>> THEN <<"5", "0">>
                               ELSE maxResultsText)
    IN  IF \/ PatternInvalid(pattern)
           \/ LessThan(maxResults, 1)
           \/ LessThan(500, maxResults)
        THEN /\ response' = [NoResponse EXCEPT !.route = "/answers", !.status = 400,
                                               !.pattern = pattern,
                                               !.maxResults = maxResultsText]
             /\ UNCHANGED <<build, manifest, chunkCache, resultCache, now,
                            dataBucket, calls, insertLog, putLog, ticks, nCalls,
                            probe>>
        ELSE Start(c, pattern, maxResults)

\* ------------------------------------------------------------ clue lookup

\* chunk.clues[normalizedAnswer] || []
LookupClues(chunk, normalizedAnswer) ==
    IF \E i \in 1..Len(chunk.clues) : chunk.clues[i][1] = normalizedAnswer
    THEN chunk.clues[CHOOSE i \in 1..Len(chunk.clues) :
                         chunk.clues[i][1] = normalizedAnswer][2]
    ELSE <<>>

\* a deduplication that only drops a clue equal to the one before it
RECURSIVE UniqueClues_Adjacent(_)
UniqueClues_Adjacent(clues) ==
    IF Len(clues) <= 1 THEN clues
    ELSE LET front == UniqueClues_Adjacent(SubSeq(clues, 1, Len(clues) - 1))
             last == clues[Len(clues)]
         IN  IF clues[Len(clues) - 1] = last THEN front ELSE Append(front, last)

\* [...new Set(clues)]: the first occurrence of every clue, in order
RECURSIVE UniqueClues(_)
UniqueClues(clues) ==
    IF clues = <<>> THEN <<>>
    ELSE LET front == UniqueClues(SubSeq(clues, 1, Len(clues) - 1))
             last == clues[Len(clues)]
         IN  IF \E i \in 1..Len(front) : front[i] = last
             THEN front ELSE Append(front, last)

\* [shuffled[i], shuffled[j]] = [shuffled[j], shuffled[i]], on 0-based indices
Swap(s, i, j) ==
    [k \in 1..Len(s) |-> IF k = i + 1 THEN s[j + 1]
                         ELSE IF k = j + 1 THEN s[i + 1] ELSE s[k]]

\* the values Math.floor(Math.random() * (i + 1)) can take for each i of the
\* Fisher-Yates loop over n elements
RandomChoices(n) ==
    {js \in [1..(n - 1) -> 0..(n - 1)] : \A i \in 1..(n - 1) : js[i] <= i}

\* the Fisher-Yates loop from index i down to 1, js[i] being the random index
RECURSIVE ShuffleFrom(_, _, _)
ShuffleFrom(shuffled, i, js) ==
    IF i <= 0 THEN shuffled
    ELSE ShuffleFrom(Swap(shuffled, i, js[i]), i - 1, js)

\* lines 272-283: look up, deduplicate, shuffle, cut
SelectClues(chunk, normalizedAnswer, maxClues, js) ==
    LET clues == LookupClues(chunk, normalizedAnswer)
        uniqueClues == UniqueClues(clues)
        shuffled == ShuffleFrom(uniqueClues, Len(uniqueClues) - 1, js)
    IN  Slice(shuffled, maxClues)

\* getClues is called; loadManifest runs to its first await
StartClues(c, answer, maxClues) ==
    /\ (calls[c].pc = "idle" \/ Finished(calls[c]))
    /\ nCalls' = nCalls + 1
    /\ LET fresh == [IdleCall EXCEPT !.kind = "getClues",
                                     !.answer = answer,
                                     !.maxClues = maxClues,
                                     !.startedAt = now,
                                     !.id = nCalls + 1,
                                     !.last = LastOf(calls[c])]
       IN  calls' = [calls EXCEPT ![c] =
               IF manifest.loaded
               THEN [fresh EXCEPT !.pc = "manifestLoaded"]
               ELSE [fresh EXCEPT !.pc = "loadManifest", !.gets = <<ManifestKey>>]]
    /\ UNCHANGED <<response, build, manifest, chunkCache, resultCache, now, dataBucket,
                   insertLog, putLog, ticks, probe>>

\* lines 259-271: find the shard of the answer and start loading it; lines
\* 262 and 265 are outside the try, so the TypeError of an empty answer and
\* that of a manifest without chunks end the call
CluesLookup(c) ==
    /\ calls[c].pc = "manifestLoaded"
    /\ calls[c].kind = "getClues"
    /\ LET call == calls[c]
           normalizedAnswer == toUpperCase(call.answer)
           cleanFirstLetter == cleanFirstChar(normalizedAnswer[1])
           lengthChunks == LengthChunks(manifest, Len(normalizedAnswer))
           found == BucketFile(lengthChunks, cleanFirstLetter)
           looked == [call EXCEPT !.normalizedPattern = normalizedAnswer,
                                  !.checkedAt = now,
                                  !.relevantChunks = found]
       IN  IF FirstCharThrows(normalizedAnswer)
           THEN calls' = [calls EXCEPT ![c] =
                    [call EXCEPT !.pc = "threw", !.error = "firstChar",
                                 !.normalizedPattern = normalizedAnswer,
                                 !.checkedAt = now, !.endedAt = now]]
           ELSE IF ManifestChunksThrows(manifest)
           THEN calls' = [calls EXCEPT ![c] =
                    [call EXCEPT !.pc = "threw", !.error = "chunks",
                                 !.normalizedPattern = normalizedAnswer,
                                 !.checkedAt = now, !.endedAt = now]]
           ELSE IF found = <<>>
           THEN calls' = [calls EXCEPT ![c] =
                    [looked EXCEPT !.pc = "cluesReturned", !.endedAt = now]]
           ELSE LET loads == <<LoadChunkBegin(chunkCache, found[1])>>
                IN  calls' = [calls EXCEPT ![c] =
                        [looked EXCEPT !.pc = "cluesLoad", !.loads = loads,
                                       !.gets = call.gets \o PendingFiles(loads)]]
    /\ UNCHANGED <<response, build, manifest, chunkCache, resultCache, now, dataBucket,
                   insertLog, putLog, ticks, nCalls, probe>>

\* lines 271-287: the shard load settled; any error of the load or of the
\* lookup, as reading the clues of a value that has none, is caught and
\* gives no clues
CluesContinue(c) ==
    /\ calls[c].pc = "cluesLoad"
    /\ calls[c].loads[1].status # "pending"
    /\ LET call == calls[c]
           load == call.loads[1]
       IN  IF load.status = "fulfilled" /\ load.chunk.hasClues
           THEN \E js \in RandomChoices(
                              Len(UniqueClues(LookupClues(load.chunk,
                                                          call.normalizedPattern)))) :
                    calls' = [calls EXCEPT ![c] =
                        [call EXCEPT !.pc = "cluesReturned", !.endedAt = now,
                                     !.scanned = <<load.fileName>>,
                                     !.clues = SelectClues(load.chunk,
                                                           call.normalizedPattern,
                                                           call.maxClues, js)]]
           ELSE calls' = [calls EXCEPT ![c] =
                    [call EXCEPT !.pc = "cluesReturned", !.endedAt = now]]
    /\ UNCHANGED <<response, build, manifest, chunkCache, resultCache, now, dataBucket,
                   insertLog, putLog, ticks, nCalls, probe>>

\* ------------------------------------------------- callers and the results

\* the elements of a list after `count` of one object was assigned: every
\* list that holds the object shows the new value, and a list that holds
\* another object for the same answer, of another parse of the shard, does
\* not
WithCount(matches, object, n) ==
    [i \in 1..Len(matches) |->
        IF IsObject(matches[i]) /\ matches[i].answer = object.answer
                                /\ matches[i].obj = object.obj
        THEN [matches[i] EXCEPT !.count = n]
        ELSE matches[i]]

\* a caller assigns the count of an element of the array it was returned.
\* The element is the object JSON.parse created for the shard (line 60):
\* results.push (lines 212, 229), sort and slice (lines 192, 248) and the
\* spread of line 178 copy references, so the shard in the shard cache, the
\* entries of the result cache and the arrays returned to every caller
\* share it, as far as they come from the same parse of the shard.
CallerMutatesElement(c, i, n) ==
    /\ calls[c].pc = "returned"
    /\ i \in 1..Len(calls[c].returned)
    /\ IsObject(calls[c].returned[i])
    /\ calls[c].returned[i].count # n
    /\ LET object == calls[c].returned[i] IN
       /\ calls' = [d \in Callers |-> [calls[d] EXCEPT
              !.returned = WithCount(calls[d].returned, object, n),
              !.results = WithCount(calls[d].results, object, n),
              !.loads = [k \in 1..Len(calls[d].loads) |->
                            [calls[d].loads[k] EXCEPT !.chunk.answers =
                                WithCount(calls[d].loads[k].chunk.answers,
                                          object, n)]]]]
       /\ resultCache' = [k \in 1..Len(resultCache) |->
              [resultCache[k] EXCEPT !.results =
                  WithCount(resultCache[k].results, object, n)]]
       /\ chunkCache' = [k \in 1..Len(chunkCache) |->
              [chunkCache[k] EXCEPT !.chunk.answers =
                  WithCount(chunkCache[k].chunk.answers, object, n)]]
    /\ UNCHANGED <<response, build, manifest, now, dataBucket, insertLog, putLog, ticks,
                   nCalls, probe>>

\* a caller removes the first element of the array it was returned: the array
\* is the one slice made (lines 192, 248), which the loader does not keep
CallerMutatesSequence(c) ==
    /\ calls[c].pc = "returned"
    /\ calls[c].returned # <<>>
    /\ calls' = [calls EXCEPT ![c].returned = Tail(calls[c].returned)]
    /\ UNCHANGED <<response, build, manifest, chunkCache, resultCache, now, dataBucket,
                   insertLog, putLog, ticks, nCalls, probe>>

\* -------------------------------------------------------------- shard build

\* a Map, kept as its entries in insertion order
MapHas(m, k) == \E i \in 1..Len(m) : m[i].key = k

MapGet(m, k) == m[CHOOSE i \in 1..Len(m) : m[i].key = k].value

\* Map.prototype.set: a present key keeps its place
MapSet(m, k, v) ==
    IF MapHas(m, k)
    THEN [i \in 1..Len(m) |-> IF m[i].key = k THEN [key |-> k, value |-> v] ELSE m[i]]
    ELSE Append(m, [key |-> k, value |-> v])

\* an array index n, at most 2^32 - 2, is kept as <<n \div 10^5, n % 10^5>>
NoIndex == <<-1, -1>>

IndexOf(n) == <<n \div 100000, n % 100000>>

IndexLess(a, b) == a[1] < b[1] \/ (a[1] = b[1] /\ a[2] < b[2])

\* the array index a one-character property name stands for, NoIndex when
\* it is no array index
ArrayIndex(name) ==
    IF name \in Digits THEN IndexOf(CHOOSE n \in 0..9 : ToString(n) = name)
    ELSE NoIndex

\* the array index a property name, given as its characters, stands for: the
\* name is the decimal numeral, without a leading zero, of an integer from
\* 0 to 2^32 - 2
ArrayIndexOf(s) ==
    IF \/ s = <<>>
       \/ \E i \in 1..Len(s) : s[i] \notin Digits
       \/ (Len(s) > 1 /\ s[1] = "0")
       \/ Len(s) > 10
    THEN NoIndex
    ELSE IF Len(s) <= 5 THEN <<0, DecimalValue(s, 0)>>
    ELSE LET high == DecimalValue(SubSeq(s, 1, Len(s) - 5), 0)
             low == DecimalValue(SubSeq(s, Len(s) - 4, Len(s)), 0)
         IN  IF high > 42949 \/ (high = 42949 /\ low > 67294) THEN NoIndex
             ELSE <<high, low>>

\* obj[key] = value on a plain object, kept as its properties in enumeration
\* order: array indices ascending, then the other names in insertion order
ObjectSet(obj, key, value, index) ==
    LET e == [key |-> key, value |-> value, index |-> index]
        ahead(x) == x.index # NoIndex /\ IndexLess(x.index, index)
    IN  IF \E i \in 1..Len(obj) : obj[i].key = key
        THEN [i \in 1..Len(obj) |-> IF obj[i].key = key THEN e ELSE obj[i]]
        ELSE IF index = NoIndex THEN Append(obj, e)
        ELSE SelectSeq(obj, ahead) \o <<e>> \o SelectSeq(obj, LAMBDA x : ~ahead(x))

ObjectGet(obj, key) ==
    IF \E i \in 1..Len(obj) : obj[i].key = key
    THEN obj[CHOOSE i \in 1..Len(obj) : obj[i].key = key].value
    ELSE <<>>

\* lines 38-72: one (answer, clue) line of the input; a line with an empty
\* answer or an empty clue is passed over
ProcessEntry(st, entry) ==
    LET upperAnswer == toUpperCase(entry.answer)
        length == Len(upperAnswer)
        firstLetter == upperAnswer[1]
        byLength == st.answersByLengthAndLetter
        lengthMap == IF MapHas(byLength, length) THEN MapGet(byLength, length) ELSE <<>>
        letterMap == IF MapHas(lengthMap, firstLetter)
                     THEN MapGet(lengthMap, firstLetter) ELSE <<>>
        count == IF MapHas(letterMap, upperAnswer) THEN MapGet(letterMap, upperAnswer) ELSE 0
        clues == IF MapHas(st.cluesByAnswer, upperAnswer)
                 THEN MapGet(st.cluesByAnswer, upperAnswer) ELSE <<>>
    IN  IF entry.answer = <<>> \/ entry.clue = "" THEN st
        ELSE IF length > MAX_ANSWER_LENGTH THEN st
        ELSE [answersByLengthAndLetter |->
                  MapSet(byLength, length,
                         MapSet(lengthMap, firstLetter,
                                MapSet(letterMap, upperAnswer, count + 1))),
              cluesByAnswer |->
                  MapSet(st.cluesByAnswer, upperAnswer,
                         IF Len(clues) < MAX_CLUES_PER_ANSWER
                         THEN Append(clues, entry.clue) ELSE clues),
              totalEntries |-> st.totalEntries + 1]

\* lines 33-77: the loop over the input lines
RECURSIVE ProcessEntries(_, _)
ProcessEntries(st, lines) ==
    IF lines = <<>> THEN st
    ELSE ProcessEntries(ProcessEntry(st, Head(lines)), Tail(lines))

\* lines 104-108: chunk.clues[answer] = ... for the answers from the k-th on
RECURSIVE AddClues(_, _, _, _)
AddClues(obj, answers, k, cluesByAnswer) ==
    IF k > Len(answers) THEN obj
    ELSE AddClues(
             IF MapHas(cluesByAnswer, answers[k].answer)
             THEN ObjectSet(obj, answers[k].answer,
                            MapGet(cluesByAnswer, answers[k].answer),
                            ArrayIndexOf(answers[k].answer))
             ELSE obj,
             answers, k + 1, cluesByAnswer)

\* lines 93-112: the shard of one (length, letter) entry as JSON.stringify
\* writes it, the clues in the property order of chunk.clues
BuildChunk(answerCounts, cluesByAnswer) ==
    LET answers == SortByCountDesc([i \in 1..Len(answerCounts) |->
                       AM(answerCounts[i].key, answerCounts[i].value)])
        Written(clues) ==
            [wellFormed |-> TRUE, hasClues |-> TRUE, answers |-> answers,
             clues |-> [i \in 1..Len(clues) |-> <<clues[i].key, clues[i].value>>]]
    IN  Written(AddClues(<<>>, answers, 1, cluesByAnswer))

\* lines 89-118: the loop over the letters of one length, from the k-th on
RECURSIVE WriteLetters(_, _, _, _, _)
WriteLetters(out, length, lengthMap, k, cluesByAnswer) ==
    IF k > Len(lengthMap) THEN out
    ELSE LET letter == lengthMap[k].key
             cleanLetter == cleanFirstChar(letter)
             chunkKey == ToString(length) \o "_" \o cleanLetter
             fileName == "chunk_" \o chunkKey \o ".json"
             chunk == BuildChunk(lengthMap[k].value, cluesByAnswer)
             registered == ObjectGet(out.chunkManifest, ToString(length))
         IN  WriteLetters(
                 [files |-> MapSet(out.files, fileName, chunk),
                  chunkManifest |->
                      ObjectSet(out.chunkManifest, ToString(length),
                                ObjectSet(registered, cleanLetter, fileName,
                                          ArrayIndex(cleanLetter)),
                                IndexOf(length)),
                  chunkCount |-> out.chunkCount + 1],
                 length, lengthMap, k + 1, cluesByAnswer)

\* lines 86-119: the loop over the lengths, from the i-th on
RECURSIVE WriteLengths(_, _, _, _)
WriteLengths(out, byLength, i, cluesByAnswer) ==
    IF i > Len(byLength) THEN out
    ELSE LET length == byLength[i].key
             opened == [out EXCEPT !.chunkManifest =
                           ObjectSet(out.chunkManifest, ToString(length), <<>>,
                                     IndexOf(length))]
         IN  WriteLengths(
                 WriteLetters(opened, length, byLength[i].value, 1, cluesByAnswer),
                 byLength, i + 1, cluesByAnswer)

\* the script from the input lines to the files it leaves
BuildChunkedIndex(lines) ==
    LET read == ProcessEntries([answersByLengthAndLetter |-> <<>>,
                                cluesByAnswer |-> <<>>, totalEntries |-> 0], lines)
        out == WriteLengths([files |-> <<>>, chunkManifest |-> <<>>, chunkCount |-> 0],
                            read.answersByLengthAndLetter, 1, read.cluesByAnswer)
    IN  [files |-> out.files,
         manifest |-> [totalEntries |-> read.totalEntries,
                       chunkCount |-> out.chunkCount,
                       chunks |-> out.chunkManifest]]

\* `directory` holds the names of the files of chunked-indexes, `queue` the
\* files the upload script has still to put
NoBuild == [pc |-> "none", lines |-> <<>>, files |-> <<>>,
            manifest |-> [totalEntries |-> 0, chunkCount |-> 0, chunks |-> <<>>],
            directory |-> {}, queue |-> <<>>, uploaded |-> {}]

\* the build script runs over its input; line 9 creates the directory when
\* it is missing and leaves in it what an earlier build left, lines 112 and
\* 128 write the shards and the manifest
RunBuild ==
    /\ build.pc = "ready"
    /\ LET written == BuildChunkedIndex(build.lines)
       IN  build' = [build EXCEPT
               !.pc = "done",
               !.files = written.files, !.manifest = written.manifest,
               !.directory = build.directory
                   \cup {written.files[i].key : i \in 1..Len(written.files)}
                   \cup {"manifest.json"}]
    /\ UNCHANGED <<response, manifest, chunkCache, resultCache, now, dataBucket, calls,
                   insertLog, putLog, ticks, nCalls, probe>>

\* the written manifest as the loader reads it from the bucket: per length,
\* the buckets in property order
StoredManifest(written) ==
    [loaded |-> TRUE, kind |-> "manifest", chunkCount |-> written.chunkCount,
     chunks |-> [i \in 1..Len(written.chunks) |->
                    [length |-> written.chunks[i].index[2],
                     buckets |-> [j \in 1..Len(written.chunks[i].value) |->
                                     <<written.chunks[i].value[j].key,
                                       written.chunks[i].value[j].value>>]]]]

\* file.endsWith(suffix)
endsWith(file, suffix) ==
    /\ Len(file) >= Len(suffix)
    /\ SubSeq(file, Len(file) - Len(suffix) + 1, Len(file)) = suffix

\* the order in which readdirSync lists two names: by the codes of their
\* characters, from the i-th on
RECURSIVE ListedBefore(_, _, _)
ListedBefore(a, b, i) ==
    IF i > Len(b) THEN FALSE
    ELSE IF i > Len(a) THEN TRUE
    ELSE IF SubSeq(a, i, i) # SubSeq(b, i, i)
         THEN CharCode(SubSeq(a, i, i)) < CharCode(SubSeq(b, i, i))
         ELSE ListedBefore(a, b, i + 1)

\* line 9: readdirSync, the names of the directory in their order
RECURSIVE readdirSync(_)
readdirSync(directory) ==
    IF directory = {} THEN <<>>
    ELSE LET first == CHOOSE f \in directory :
                          \A g \in directory \ {f} : ListedBefore(f, g, 1)
         IN  <<first>> \o readdirSync(directory \ {first})

\* scripts/upload-chunks.js, lines 9-12: the script lists the directory and
\* keeps the .json files, those of earlier builds included
UploadBegin ==
    /\ build.pc = "done"
    /\ build' = [build EXCEPT
           !.pc = "uploading",
           !.queue = SelectSeq(readdirSync(build.directory),
                               LAMBDA file : endsWith(file, ".json"))]
    /\ UNCHANGED <<response, manifest, chunkCache, resultCache, now, dataBucket, calls,
                   insertLog, putLog, ticks, nCalls, probe>>

\* lines 13-23: one execSync of `wrangler r2 object put` per file, in the
\* order of the listing; a put that fails is logged and the loop goes on,
\* so any of the files may be missing from the bucket afterwards
UploadPut(ok) ==
    /\ build.pc = "uploading"
    /\ build.queue # <<>>
    /\ LET file == Head(build.queue) IN
       /\ build' = [build EXCEPT
              !.pc = IF Tail(build.queue) = <<>> THEN "uploaded" ELSE "uploading",
              !.queue = Tail(build.queue),
              !.uploaded = IF ok THEN build.uploaded \cup {file} ELSE build.uploaded]
       /\ dataBucket' = IF ok /\ file = "manifest.json"
                        THEN StoredManifest(build.manifest)
                        ELSE dataBucket
    /\ UNCHANGED <<response, manifest, chunkCache, resultCache, now, calls,
                   insertLog, putLog, ticks, nCalls, probe>>

\* a manifest of twelve shards: two buckets for each of six lengths
WideFiles ==
    << <<"chunk_1_A.json", "chunk_1_B.json">>, <<"chunk_2_A.json", "chunk_2_B.json">>,
       <<"chunk_3_A.json", "chunk_3_B.json">>, <<"chunk_4_A.json", "chunk_4_B.json">>,
       <<"chunk_5_A.json", "chunk_5_B.json">>, <<"chunk_6_A.json", "chunk_6_B.json">> >>

WideManifest ==
    [loaded |-> TRUE, kind |-> "manifest", chunkCount |-> 12,
     chunks |-> [n \in 1..Len(WideFiles) |->
                    [length |-> n,
                     buckets |-> << <<"A", WideFiles[n][1]>>, <<"B", WideFiles[n][2]>> >>]]]

\* ---------------------------------------------------------- specifications

\* strings over an alphabet, by length
RECURSIVE StringsOfLen(_, _)
StringsOfLen(alphabet, n) ==
    IF n = 0 THEN {<<>>}
    ELSE {<<ch>> \o s : ch \in alphabet, s \in StringsOfLen(alphabet, n - 1)}

StringsUpTo(alphabet, lo, hi) == UNION {StringsOfLen(alphabet, n) : n \in lo..hi}

\* the patterns and limits the engine is queried with
QueryPatterns ==
    {<<"?","?">>, <<"a","?">>, <<"A","?">>, <<"-","A">>,
     <<"C","A">>, <<"?","?","?">>}
QueryLimits == {1, 4}
TickSteps == {1, CACHE_TTL}

Init ==
    /\ manifest = NoManifest
    /\ chunkCache = <<>>
    /\ resultCache = <<>>
    /\ now = 0
    /\ dataBucket = SmallManifest
    /\ calls = [c \in Callers |-> IdleCall]
    /\ insertLog = <<>>
    /\ putLog = <<>>
    /\ ticks = 0
    /\ nCalls = 0
    /\ probe = NoProbe
    /\ build = NoBuild
    /\ response = NoResponse

\* the steps of a call in progress, the storage gets settling as given
StepsWith(c, manifestOutcomes, chunkOutcomes) ==
    \/ \E outcome \in manifestOutcomes : ManifestGetReturns(c, outcome)
    \/ Search(c)
    \/ \E i \in 1..Len(calls[c].loads), outcome \in chunkOutcomes :
           ChunkGetReturns(c, i, outcome)
    \/ DirectContinue(c)
    \/ ParallelContinue(c)

Steps(c) == StepsWith(c, ManifestOutcomes, ChunkOutcomes)

\* one caller issuing queries one after the other, time passing between
\* them (SpecRepeat has it pass during a query as well)
Next ==
    \/ /\ nCalls < MaxCalls
       /\ \E pattern \in QueryPatterns, maxResults \in QueryLimits :
              Start(1, pattern, maxResults)
    \/ Steps(1)
    \/ /\ ticks < MaxQueryTicks
       /\ calls[1].pc = "idle" \/ Finished(calls[1])
       /\ \E d \in TickSteps : Tick(d)

Spec == Init /\ [][Next]_vars

\* one caller repeating queries for one cache key
RepeatPatterns == {<<"a","?">>, <<"A","?">>, <<"?","?">>}

NextRepeat ==
    \/ /\ nCalls < MaxRepeatCalls
       /\ \E pattern \in RepeatPatterns, maxResults \in QueryLimits :
              Start(1, pattern, maxResults)
    \/ StepsWith(1, {"ok", "falsy", "missing"}, {"ok", "missing"})
    \/ /\ ticks < MaxTicks
       /\ \E d \in TickSteps : Tick(d)

SpecRepeat == Init /\ [][NextRepeat]_vars

\* the matcher applied to patterns and answers of every shape, then the engine
PatternAlphabet == {"A", "B", "a", "?", "-", ".", "("}
AnswerAlphabet == {"A", "B", "a", "1", "-"}
\* patterns with a back reference, a forward reference, a reference into
\* a repeated group, decimal escapes that refer to no group, the escape of
\* the form feed and a class escape
EscapePatterns ==
    {<<"(", "A", ")", "\\", "1">>, <<"\\", "1">>, <<"\\", "1", "(", "A", ")">>,
     <<"(", "(", "A", ")", "|", "B", ")", "+", "\\", "2">>,
     <<"\\", "1", "0", "1">>, <<"\\", "6", "1">>, <<"(", "A", ")", "\\", "2">>,
     <<"\\", "1", "4">>, <<"\\", "s">>}
ProbePatterns == StringsUpTo(PatternAlphabet, 1, MaxProbeLen) \cup EscapePatterns
ProbeAnswers == StringsUpTo(AnswerAlphabet, 0, MaxProbeLen + 1) \cup {<<"\f">>, <<" ">>}

\* queries whose pattern holds a character of the regular expression
\* syntax: one that accepts any letter behind A, one that is no expression,
\* and one that accepts every text, the "undefined" that stands for an
\* element without an answer included
SyntaxPatterns == {<<"A", ".">>, <<"A", "(">>, <<"?", "|">>, <<>>}

NextMatcher ==
    \/ /\ nCalls = 0
       /\ ~probe.made
       /\ \E pattern \in ProbePatterns, answer \in ProbeAnswers : Probe(pattern, answer)
    \/ /\ ~probe.made
       /\ nCalls < MaxCalls
       /\ \E pattern \in QueryPatterns \cup SyntaxPatterns, maxResults \in QueryLimits :
              Start(1, pattern, maxResults)
    \/ /\ ~probe.made
       /\ Steps(1)

SpecMatcher == Init /\ [][NextMatcher]_vars

\* one caller loading ever new shards: the n-th query asks for every answer
\* of length n, so that the loads of its candidate shards run concurrently
WildcardPattern(n) == [i \in 1..n |-> "?"]

InitChunkCache ==
    /\ manifest = NoManifest
    /\ chunkCache = <<>>
    /\ resultCache = <<>>
    /\ now = 0
    /\ dataBucket = WideManifest
    /\ calls = [c \in Callers |-> IdleCall]
    /\ insertLog = <<>>
    /\ putLog = <<>>
    /\ ticks = 0
    /\ nCalls = 0
    /\ probe = NoProbe
    /\ build = NoBuild
    /\ response = NoResponse

NextChunkCache ==
    \/ /\ nCalls < MaxShardQueries
       /\ Start(1, WildcardPattern(nCalls + 1), 1)
    \/ ManifestGetReturns(1, "ok")
    \/ Search(1)
    \/ \E i \in 1..Len(calls[1].loads), outcome \in {"ok", "missing"} :
           ChunkGetReturns(1, i, outcome)
    \/ ParallelContinue(1)

SpecChunkCache == InitChunkCache /\ [][NextChunkCache]_vars

\* ever new patterns: the n-th is the n-th pattern of length 3, then of
\* length 4, over A, B and the wildcard
WorkloadAlphabet == <<"A", "B", "?">>

Power3(k) == IF k = 0 THEN 1 ELSE IF k = 1 THEN 3 ELSE IF k = 2 THEN 9 ELSE 27

NthPattern(n) ==
    IF n <= 27
    THEN [i \in 1..3 |-> WorkloadAlphabet[(((n - 1) \div Power3(3 - i)) % 3) + 1]]
    ELSE [i \in 1..4 |-> WorkloadAlphabet[(((n - 28) \div Power3(4 - i)) % 3) + 1]]

\* one caller looking clues up, one answer after the other
ClueAnswers == {<<"a","a">>, <<"A","B">>, <<"A","D">>, <<"B","A">>,
                <<"C","A">>, <<"A","A","A">>, <<>>}
ClueLimits == {0, 1, 2, 10}

NextClues ==
    \/ /\ nCalls < MaxClueCalls
       /\ \E answer \in ClueAnswers, maxClues \in ClueLimits :
              StartClues(1, answer, maxClues)
    \/ \E outcome \in ManifestOutcomes : ManifestGetReturns(1, outcome)
    \/ CluesLookup(1)
    \/ \E outcome \in ChunkOutcomes : ChunkGetReturns(1, 1, outcome)
    \/ CluesContinue(1)

SpecClues == Init /\ [][NextClues]_vars

\* two callers whose calls interleave at the awaits
ConcurrentPatterns == {<<"A","?">>, <<"?","?">>}
ConcurrentAnswers == {<<"A","B">>}
\* the manifest gets of the concurrent callers succeed, read the text null
\* or fail
ConcurrentManifestOutcomes == {"ok", "null", "error"}

NextConcurrent ==
    \E c \in Callers :
        \/ /\ nCalls < MaxConcurrentCalls
           /\ \E pattern \in ConcurrentPatterns : Start(c, pattern, 1)
        \/ /\ nCalls < MaxConcurrentCalls
           /\ \E answer \in ConcurrentAnswers : StartClues(c, answer, 1)
        \/ StepsWith(c, ConcurrentManifestOutcomes, {"ok"})
        \/ CluesLookup(c)
        \/ CluesContinue(c)

SpecConcurrent == Init /\ [][NextConcurrent]_vars

\* one caller that changes the results it is returned between its queries,
\* and a second caller whose query may load the same shard alongside, so
\* that the shard is parsed twice
MutatePatterns == {<<"A","?">>, <<"a","?">>, <<"?","?">>}

NextMutate ==
    \/ /\ nCalls < MaxMutateCalls
       /\ \/ \E pattern \in MutatePatterns, maxResults \in QueryLimits :
                 Start(1, pattern, maxResults)
          \/ Start(2, <<"A", "?">>, 4)
    \/ \E c \in Callers : StepsWith(c, {"ok"}, {"ok"})
    \/ \E i \in 1..Len(calls[1].returned) : CallerMutatesElement(1, i, 0)
    \/ CallerMutatesSequence(1)

SpecMutate == Init /\ [][NextMutate]_vars

\* one caller fills the result cache with distinct patterns that have no
\* shard; then two callers query two patterns that load shards and the last
\* pattern of the fill, their calls interleaving at the awaits; between
\* queries the clock may advance to the TTL or beyond it
RacePatterns == {<<"?","?">>, <<"A","?">>, NthPattern(MaxFillQueries)}
RaceTicks == {CACHE_TTL, CACHE_TTL + 1}

NextPutRace ==
    \/ /\ nCalls < MaxFillQueries
       /\ Start(1, NthPattern(nCalls + 1), 1)
    \/ /\ nCalls >= MaxFillQueries
       /\ nCalls < MaxFillQueries + MaxRaceCalls
       /\ \E c \in Callers, pattern \in RacePatterns : Start(c, pattern, 1)
    \/ \E c \in Callers : StepsWith(c, {"ok"}, {"ok"})
    \/ /\ nCalls >= MaxFillQueries
       /\ ticks = 0
       /\ \A c \in Callers : calls[c].pc = "idle" \/ Finished(calls[c])
       /\ \E d \in RaceTicks : Tick(d)

SpecPutRace == Init /\ [][NextPutRace]_vars

\* one caller fills the shard cache with the shards of five lengths, reads
\* the oldest of them again through a literal pattern, and then loads the
\* shards of a sixth length
RereadPattern(n) ==
    IF n <= 5 THEN WildcardPattern(n)
    ELSE IF n = 6 THEN <<"A">> ELSE WildcardPattern(6)

NextChunkReread ==
    \/ /\ nCalls < MaxRereadQueries
       /\ Start(1, RereadPattern(nCalls + 1), 1)
    \/ ManifestGetReturns(1, "ok")
    \/ Search(1)
    \/ \E i \in 1..Len(calls[1].loads), outcome \in {"ok", "missing"} :
           ChunkGetReturns(1, i, outcome)
    \/ DirectContinue(1)
    \/ ParallelContinue(1)

SpecChunkReread == InitChunkCache /\ [][NextChunkReread]_vars

\* the analysis of patterns of every shape, then the engine
AnalyzeAlphabet == {"A", "?", "b", "-"}
AnalyzePatterns == StringsUpTo(AnalyzeAlphabet, 0, MaxAnalyzeLen)

NextAnalyze ==
    \/ /\ nCalls = 0
       /\ response.route = "none"
       /\ \E pattern \in AnalyzePatterns : DebugPattern(pattern)
    \/ /\ response.route = "none"
       /\ Next

SpecAnalyze == Init /\ [][NextAnalyze]_vars

\* requests to /answers with limits of every shape, the storage serving
\* every get
HandlerPatterns == {<<"A", "?">>, <<"?", "?">>, <<"-", "A">>, <<>>}
MaxResultsTexts ==
    {<<>>, <<"0">>, <<"1">>, <<"4">>, <<"5", "0", "0">>, <<"5", "0", "1">>,
     <<"-", "1">>, <<"a", "b", "c">>, <<"4", "x">>, <<" ", "1">>, <<"\t", "4">>,
     <<"\n", "\r", "x">>}

NextHandler ==
    \/ /\ nCalls < MaxRequests
       /\ \E pattern \in HandlerPatterns, maxResultsText \in MaxResultsTexts :
              AnswersRequest(1, pattern, maxResultsText)
    \/ StepsWith(1, {"ok"}, {"ok"})

SpecHandler == Init /\ [][NextHandler]_vars

\* one caller repeating queries for one cache key with different limits,
\* the storage serving every get
NextAvailable ==
    \/ /\ nCalls < MaxRepeatCalls
       /\ \E pattern \in RepeatPatterns, maxResults \in QueryLimits :
              Start(1, pattern, maxResults)
    \/ StepsWith(1, {"ok"}, {"ok"})
    \/ /\ ticks < MaxTicks
       /\ \E d \in TickSteps : Tick(d)

SpecAvailable == Init /\ [][NextAvailable]_vars

\* the shard build over every short input
BuildAnswers ==
    {<<"-","A">>, <<"+","A">>, <<"A","B">>, <<"a","b">>, <<"1","A">>, <<"1","0">>, <<"B">>}
BuildLines ==
    {[answer |-> a, clue |-> "c"] : a \in BuildAnswers}
        \cup {[answer |-> <<"B", "A">>, clue |-> ""]}
BuildInputs == UNION {[1..n -> BuildLines] : n \in 0..MaxBuildLines}

\* what the directory chunked-indexes holds before the build: nothing, or
\* files of an earlier build and a file that is no JSON file
StaleDirectories == {{}, {"chunk_3_Z.json", "notes.txt"}}

InitBuild ==
    /\ manifest = NoManifest
    /\ chunkCache = <<>>
    /\ resultCache = <<>>
    /\ now = 0
    /\ dataBucket = SmallManifest
    /\ calls = [c \in Callers |-> IdleCall]
    /\ insertLog = <<>>
    /\ putLog = <<>>
    /\ ticks = 0
    /\ nCalls = 0
    /\ probe = NoProbe
    /\ \E lines \in BuildInputs, stale \in StaleDirectories :
           build = [NoBuild EXCEPT !.pc = "ready", !.lines = lines,
                                   !.directory = stale]
    /\ response = NoResponse

NextBuild ==
    \/ RunBuild
    \/ UploadBegin
    \/ \E ok \in BOOLEAN : UploadPut(ok)

SpecBuild == InitBuild /\ [][NextBuild]_vars

\* ------------------------------------------------------------------ claims

Returned(c) == calls[c].pc = "returned"

\* the call got past the result cache and selected its shards
Selected(c) ==
    /\ calls[c].searchStrategy # "none"
    /\ calls[c].error \notin {"regex", "chunks", "firstChar"}

NonIncreasing(r) == \A i \in 1..(Len(r) - 1) : r[i].count >= r[i + 1].count

\* every element carries a count, as every element of a shard that the
\* build script wrote does
HasCounts(r) == \A i \in 1..Len(r) : "count" \in DOMAIN r[i]

\* C1: whatever was queried before, a result returned by findMatchingAnswers
\* has at most maxResults elements and, its elements carrying counts, is
\* sorted by count in non-increasing order, whether it was searched for or
\* read from the result cache.
C1_SortedAndLimited ==
    \A c \in Callers :
        Returned(c) =>
            /\ Len(calls[c].returned) <= calls[c].maxResults
            /\ HasCounts(calls[c].returned) => NonIncreasing(calls[c].returned)

\* a cache hit that returns at least two answers of different counts
C1_Witness ==
    /\ Returned(1)
    /\ calls[1].hit
    /\ Len(calls[1].returned) >= 2
    /\ calls[1].returned[1].count > calls[1].returned[2].count

\* the matcher as the claim states it, position by position
Accepts(normalizedPattern, answer) ==
    /\ Len(answer) = Len(normalizedPattern)
    /\ \A i \in 1..Len(normalizedPattern) :
           IF normalizedPattern[i] = "?"
           THEN answer[i] \in UpperLetters
           ELSE answer[i] = normalizedPattern[i]

\* the characters, other than the wildcard, that the regular expression
\* syntax gives a meaning
SyntaxCharacters == {"^", "$", "\\", ".", "*", "+", "(", ")", "[", "]", "{", "}", "|"}

\* a pattern of letters, wildcards and other characters without a meaning in
\* a regular expression: the patterns of the interface are among them
PlainPattern(pattern) ==
    \A i \in 1..Len(pattern) : pattern[i] \notin SyntaxCharacters

\* C2: for a pattern of letters and wildcards (the patterns of the
\* interface; more generally a pattern without a character of the regular
\* expression syntax), the matcher accepts an answer exactly when the answer
\* has the pattern's length, equals the uppercased pattern at every literal
\* position and has a letter A-Z at every wildcard position; and every answer
\* findMatchingAnswers returns is accepted by the matcher of its pattern.
C2_MatcherExact ==
    /\ (probe.made /\ PlainPattern(probe.pattern)) =>
           /\ ~probe.threw
           /\ probe.accepted <=> Accepts(toUpperCase(probe.pattern), probe.answer)
    /\ \A c \in Callers :
           (Returned(c) /\ PlainPattern(calls[c].pattern)) =>
               \A i \in 1..Len(calls[c].returned) :
                   Accepts(toUpperCase(calls[c].pattern), calls[c].returned[i].answer)

\* a lower-case pattern with a wildcard accepts an answer of its length
C2_Witness ==
    /\ probe.made
    /\ probe.pattern = <<"a", "?">>
    /\ probe.answer = <<"A", "B">>
    /\ probe.accepted

SeqToSet(s) == {s[i] : i \in 1..Len(s)}

\* the (bucket, shard identifier) entries the installed manifest registers
\* for a length
Registered(length) ==
    UNION {SeqToSet(manifest.chunks[i].buckets) :
              i \in {k \in 1..Len(manifest.chunks) : manifest.chunks[k].length = length}}

\* the shard identifiers registered for a length
RegisteredFor(length) == {e[2] : e \in Registered(length)}

\* the shard identifiers registered for a length under one bucket
RegisteredUnder(length, bucket) ==
    {e[2] : e \in {x \in Registered(length) : x[1] = bucket}}

NoRepeats(s) == \A i, j \in 1..Len(s) : i # j => s[i] # s[j]

\* C3: the candidate shards of a normalized pattern are the one identifier
\* registered under (length, sanitized first character) when the first
\* character is a literal, every identifier registered for the length when it
\* is the wildcard, and none when the length or the bucket is not registered.
C3_CandidateShards ==
    \A c \in Callers :
        (Selected(c) /\ manifest.kind = "manifest") =>
            LET np == toUpperCase(calls[c].pattern)
                rc == calls[c].relevantChunks
            IN  /\ NoRepeats(rc)
                /\ SeqToSet(rc) =
                      IF np[1] = "?"
                      THEN RegisteredFor(Len(np))
                      ELSE RegisteredUnder(Len(np),
                               IF np[1] \in UpperLetters \cup Digits THEN np[1] ELSE "_")
                /\ np[1] # "?" => Len(rc) <= 1

\* a pattern led by a character outside A-Z and 0-9 selects the placeholder bucket
C3_Witness ==
    /\ Selected(1)
    /\ calls[1].pattern = <<"-", "A">>
    /\ calls[1].relevantChunks = <<"chunk_2__.json">>

\* the call consulted the result cache
Checked(c) == calls[c].normalizedPattern # <<>>

\* the shard identifiers the call fetched from the storage backend
ShardGets(c) == SeqToSet(calls[c].gets) \ {ManifestKey}

\* the caller's previous call returned a result for the same normalized pattern
RepeatsLast(c) ==
    /\ Checked(c)
    /\ calls[c].last.outcome = "returned"
    /\ calls[c].last.normalizedPattern = calls[c].normalizedPattern

\* C4 as stated: a pattern queried again within 5 minutes of the previous
\* query for it (each query timed when it consults the result cache) is
\* served from the result cache, with no shard get.
C4_Original ==
    \A c \in Callers :
        (RepeatsLast(c) /\ calls[c].checkedAt - calls[c].last.checkedAt <= CACHE_TTL)
            => (calls[c].hit /\ ShardGets(c) = {})

\* C4 (amended): when a query that missed the result cache returns at time T
\* and the next query is for the same pattern after uppercasing and consults
\* the cache no later than T + 5 minutes, the second call is served from the
\* result cache and issues no storage get for a shard (its only get, if any,
\* is that of a manifest that is still unset).
C4_CachedRepeat ==
    \A c \in Callers :
        (/\ RepeatsLast(c)
         /\ ~calls[c].last.hit
         /\ calls[c].checkedAt - calls[c].last.endedAt <= CACHE_TTL)
            => (/\ calls[c].hit
                /\ ShardGets(c) = {}
                /\ calls[c].gets \in {<<>>, <<ManifestKey>>})

\* the same key in another spelling, read exactly 5 minutes after it was stored
C4_Witness ==
    /\ Returned(1)
    /\ calls[1].hit
    /\ calls[1].gets = <<>>
    /\ calls[1].pattern = <<"a", "?">>
    /\ calls[1].last.outcome = "returned"
    /\ ~calls[1].last.hit
    /\ calls[1].last.normalizedPattern = <<"A", "?">>
    /\ calls[1].checkedAt - calls[1].last.endedAt = CACHE_TTL
    /\ Len(calls[1].returned) >= 1

\* the call found an entry stored more than 5 minutes before
FoundExpired(c) ==
    /\ Checked(c)
    /\ calls[c].cachedTimestamp >= 0
    /\ calls[c].checkedAt > calls[c].cachedTimestamp + CACHE_TTL

\* C5 as stated: a result cached at time T is a miss for a query later than
\* T + 5 minutes, and that query fetches the pattern's candidate shards from
\* the storage backend.
C5_Original ==
    \A c \in Callers :
        FoundExpired(c) =>
            /\ ~calls[c].hit
            /\ SeqToSet(calls[c].relevantChunks) \subseteq ShardGets(c)

\* C5 (amended): a result cached at time T is a miss for a query later than
\* T + 5 minutes; that query removes the entry and loads the pattern's
\* candidate shards again, fetching from the storage backend exactly the
\* candidates the shard cache does not hold.
C5_ExpiredRefetch ==
    \A c \in Callers :
        FoundExpired(c) =>
            /\ ~calls[c].hit
            /\ Selected(c)
            /\ ShardGets(c) = SeqToSet(calls[c].relevantChunks) \ calls[c].cachedAtCheck
            /\ \A i \in 1..Len(resultCache) :
                   resultCache[i].key = getCacheKey(calls[c].normalizedPattern)
                       => resultCache[i].timestamp >= calls[c].checkedAt

\* an expired entry, one candidate shard still cached and another fetched again
C5_Witness ==
    /\ FoundExpired(1)
    /\ Returned(1)
    /\ calls[1].checkedAt = calls[1].cachedTimestamp + CACHE_TTL + 1
    /\ ShardGets(1) # {}
    /\ SeqToSet(calls[1].relevantChunks) \cap calls[1].cachedAtCheck # {}

ChunkCacheKeys == [i \in 1..Len(chunkCache) |-> chunkCache[i].fileName]

\* the last n elements of a sequence of at least n elements
LastN(s, n) == SubSeq(s, Len(s) - n + 1, Len(s))

\* C6: the shard cache never holds more than 10 entries, however the
\* concurrent loads of a query interleave; once more than 10 distinct shard
\* identifiers were loaded it holds exactly 10 entries, the 10 most recently
\* inserted identifiers.
C6_ShardCacheBound ==
    /\ Len(chunkCache) <= 10
    /\ NoRepeats(ChunkCacheKeys)
    /\ (NoRepeats(insertLog) /\ Len(insertLog) > 10)
           => ChunkCacheKeys = LastN(insertLog, 10)

\* twelve distinct shards were loaded, completing out of candidate order
C6_Witness ==
    /\ Len(insertLog) = 12
    /\ NoRepeats(insertLog)
    /\ Len(chunkCache) = 10
    /\ insertLog[1] = "chunk_1_B.json"
    /\ chunkCache[1].fileName = insertLog[3]

ResultCacheKeys == [i \in 1..Len(resultCache) |-> resultCache[i].key]

ParallelReturned(c) ==
    /\ Returned(c)
    /\ ~calls[c].hit
    /\ calls[c].searchStrategy = "parallel-optimized"

FileNames(loads) == [i \in 1..Len(loads) |-> loads[i].fileName]

IsPrefix(s, t) == Len(s) <= Len(t) /\ s = SubSeq(t, 1, Len(s))

\* the value is a shard: its answers are AnswerMatch objects
HoldsShard(chunk) ==
    /\ chunk.wellFormed
    /\ \A k \in 1..Len(chunk.answers) : IsObject(chunk.answers[k])

\* the element is an AnswerMatch whose answer the pattern accepts
AcceptedMatch(normalizedPattern, a) ==
    /\ IsObject(a)
    /\ Accepts(normalizedPattern, a.answer)

\* the answers of a loaded shard that the matcher of the pattern accepts
AcceptedIn(load, normalizedPattern) ==
    {k \in 1..Len(load.chunk.answers) :
        AcceptedMatch(normalizedPattern, load.chunk.answers[k])}

\* how many accepted answers the first n of a list of loaded shards hold
RECURSIVE AcceptedUpTo(_, _, _)
AcceptedUpTo(loads, n, normalizedPattern) ==
    IF n = 0 THEN 0
    ELSE Cardinality(AcceptedIn(loads[n], normalizedPattern))
         + AcceptedUpTo(loads, n - 1, normalizedPattern)

\* C8 as stated: once a wildcard-first query has accumulated 2 * maxResults
\* matches, no storage get was issued for the candidate shards it did not scan.
C8_Original ==
    \A c \in Callers :
        (ParallelReturned(c) /\ Len(calls[c].results) >= 2 * calls[c].maxResults)
            => (SeqToSet(calls[c].relevantChunks) \ SeqToSet(calls[c].scanned))
                   \cap ShardGets(c) = {}

\* C8 (amended): a wildcard-first query fetches every candidate shard the
\* shard cache does not hold before it scans any; once 2 * maxResults matches
\* have accumulated, the loaded shards not yet scanned are never scanned: the
\* scan follows the candidate order, ends with at most 2 * maxResults matches,
\* and leaves a loaded shard out only when it ended with exactly that many.
C8_EarlyStopAfterLoad ==
    \A c \in Callers :
        ParallelReturned(c) =>
            LET call == calls[c]
                loaded == FulfilledChunks(call.loads)
                limit == 2 * call.maxResults
            IN  /\ ShardGets(c) = SeqToSet(call.relevantChunks) \ call.cachedAtCheck
                /\ IsPrefix(call.scanned, FileNames(loaded))
                /\ Len(call.results) <= limit
                /\ Len(call.scanned) < Len(loaded) => Len(call.results) = limit
                /\ \A n \in 0..(Len(call.scanned) - 1) :
                       AcceptedUpTo(loaded, n, call.normalizedPattern) < limit

\* the scan stopped early and left out a shard that had been fetched
C8_Witness ==
    /\ ParallelReturned(1)
    /\ Len(calls[1].results) = 2 * calls[1].maxResults
    /\ (SeqToSet(FileNames(FulfilledChunks(calls[1].loads))) \ SeqToSet(calls[1].scanned))
           \cap ShardGets(1) # {}

\* the call selected shards and every load of it settled
Settled(c) ==
    /\ Selected(c)
    /\ Finished(calls[c])
    /\ ~calls[c].hit

\* some candidate shards failed to load and the others loaded as shards
PartialFailure(c) ==
    /\ Settled(c)
    /\ \E i \in 1..Len(calls[c].loads) : calls[c].loads[i].status = "rejected"
    /\ \E i \in 1..Len(calls[c].loads) : calls[c].loads[i].status = "fulfilled"
    /\ \A i \in 1..Len(calls[c].loads) :
           calls[c].loads[i].status = "fulfilled" => HoldsShard(calls[c].loads[i].chunk)

\* the accepted answers of the healthy shards of a call
HealthyMatches(c) ==
    UNION {{calls[c].loads[i].chunk.answers[k] :
               k \in AcceptedIn(calls[c].loads[i], calls[c].normalizedPattern)} :
           i \in {j \in 1..Len(calls[c].loads) : calls[c].loads[j].status = "fulfilled"}}

\* r is a set of matches sorted by count, descending, and cut to n: no match
\* left out has a higher count than one kept
TopOf(r, matches, n) ==
    /\ NonIncreasing(r)
    /\ NoRepeats(r)
    /\ SeqToSet(r) \subseteq matches
    /\ Len(r) = Min(n, Cardinality(matches))
    /\ \A x \in matches \ SeqToSet(r) : \A i \in 1..Len(r) : r[i].count >= x.count

\* C9 as stated: when some candidate shards fail to load and the others load,
\* the call raises no error and returns the accepted answers of the healthy
\* shards, sorted by count and cut to maxResults, however many there are.
C9_Original ==
    \A c \in Callers :
        PartialFailure(c) =>
            /\ Returned(c)
            /\ TopOf(calls[c].returned, HealthyMatches(c), calls[c].maxResults)

\* C9 (amended): when some candidate shards fail to load and the others load
\* as shards, the call raises no error and its result is sorted by count and
\* cut to maxResults; it is the top of all accepted answers of the healthy
\* shards whenever these hold at most 2 * maxResults accepted answers, and in
\* the direct strategy always; beyond that the parallel-optimized strategy
\* ranks only the 2 * maxResults accepted answers it scanned first.
C9_PartialFailure ==
    \A c \in Callers :
        PartialFailure(c) =>
            LET call == calls[c] IN
            /\ Returned(c)
            /\ Len(call.returned) <= call.maxResults
            /\ NonIncreasing(call.returned)
            /\ SeqToSet(call.returned) \subseteq HealthyMatches(c)
            /\ (\/ call.searchStrategy = "direct"
                \/ Cardinality(HealthyMatches(c)) <= 2 * call.maxResults)
                   => TopOf(call.returned, HealthyMatches(c), call.maxResults)
            /\ Cardinality(HealthyMatches(c)) > 2 * call.maxResults
                   => TopOf(call.returned, SeqToSet(call.results), call.maxResults)

\* one of three candidate shards failed; the answers of the other two are ranked
C9_Witness ==
    /\ PartialFailure(1)
    /\ Returned(1)
    /\ Len(calls[1].loads) = 3
    /\ calls[1].loads[1].status = "rejected"
    /\ calls[1].loads[2].status = "fulfilled"
    /\ Len(calls[1].returned) = 2

\* C10: once the manifest is loaded, no shard makes findMatchingAnswers fail:
\* whichever candidate shards are missing, hit a backend error or hold
\* content that is no shard, no call raises an error over a shard.
C10_NoShardError ==
    \A c \in Callers : ~(calls[c].pc = "threw" /\ calls[c].error = "shard")

\* C11: getClues never raises an error to its caller, whatever fails during
\* the lookup: a missing or undecodable manifest and a failed shard load
\* included, it returns an empty sequence.
C11_CluesNeverThrow ==
    \A c \in Callers : calls[c].kind = "getClues" => calls[c].pc # "threw"

\* the call is a clue lookup that returned after its shard was loaded,
\* whatever the loaded value is
CluesFound(c) ==
    /\ calls[c].kind = "getClues"
    /\ calls[c].pc = "cluesReturned"
    /\ Len(calls[c].loads) = 1
    /\ calls[c].loads[1].status = "fulfilled"

\* the clue list the loaded shard stores for the answer (empty when it has none)
StoredClues(c) ==
    LET np == toUpperCase(calls[c].answer)
        lists == {e[2] : e \in {x \in SeqToSet(calls[c].loads[1].chunk.clues) :
                                     x[1] = np}}
    IN  IF lists = {} THEN <<>> ELSE CHOOSE l \in lists : TRUE

\* C14: a successful getClues returns a sequence with no repeated element,
\* every element of which occurs in the stored clue list of the answer, and
\* whose length is the smaller of maxClues and the number of distinct stored
\* clues; an answer the shard has no clue list for yields the empty sequence.
C14_ClueSelection ==
    \A c \in Callers :
        CluesFound(c) =>
            /\ NoRepeats(calls[c].clues)
            /\ SeqToSet(calls[c].clues) \subseteq SeqToSet(StoredClues(c))
            /\ Len(calls[c].clues) =
                   Min(calls[c].maxClues, Cardinality(SeqToSet(StoredClues(c))))

\* a list with a repeated clue was deduplicated and returned in another order
C14_Witness ==
    /\ CluesFound(1)
    /\ calls[1].answer = <<"A", "B">>
    /\ StoredClues(1) = <<"c", "d", "c">>
    /\ calls[1].clues = <<"d", "c">>

\* the current call of the caller fetched the manifest and installed it
InstalledManifest(c) ==
    /\ calls[c].gets # <<>>
    /\ calls[c].gets[1] = ManifestKey
    /\ calls[c].pc # "loadManifest"
    /\ calls[c].error \notin {"manifest", "chunkCount"}

\* C12: the manifest is fetched at most once per loader: however the first
\* calls of concurrent callers interleave at the fetch, at most one get of
\* the manifest object succeeds and is installed.
C12_ManifestOnce ==
    Cardinality({c \in Callers : InstalledManifest(c)}) <= 1

\* C13: a findMatchingAnswers call whose manifest fetch fails (object missing,
\* backend error, content not decodable) raises an error and leaves the
\* loader as it was: from the call to the error the manifest stays unset and
\* the shard cache and the result cache are unchanged, and the next query
\* issues the manifest get again.  (A content that decodes to null fails the
\* call as well, behind the assignment of line 39: the manifest is unset
\* then, whatever it was.)
C13_ManifestFailure ==
    [][\A c \in Callers :
          /\ (calls[c].pc # "loadManifest" /\ calls'[c].pc = "loadManifest")
                 => (/\ calls'[c].gets = <<ManifestKey>>
                     /\ UNCHANGED <<manifest, chunkCache, resultCache>>)
          /\ (calls[c].pc = "loadManifest" /\ calls'[c].pc = "threw")
                 => (/\ calls'[c].error \in {"manifest", "chunkCount"}
                     /\ ~manifest'.loaded
                     /\ calls'[c].error = "manifest" => UNCHANGED manifest
                     /\ UNCHANGED <<chunkCache, resultCache>>)
          /\ (calls[c].pc = "threw" /\ calls[c].error \in {"manifest", "chunkCount"}
              /\ ~manifest.loaded /\ calls'[c] # calls[c])
                 => calls'[c].pc = "loadManifest"]_vars

\* after a query failed for the manifest, the next query fetches it again
C13_Witness ==
    /\ calls[1].kind = "findMatchingAnswers"
    /\ calls[1].pc = "loadManifest"
    /\ calls[1].gets = <<ManifestKey>>
    /\ calls[1].last.outcome = "threw"
    /\ ~manifest.loaded
    /\ chunkCache = <<>>
    /\ resultCache = <<>>

\* the AnswerMatch values of the stored shards
StoredMatches ==
    UNION {SeqToSet(ChunkData(f).answers) :
              f \in {"chunk_2_A.json", "chunk_2_B.json", "chunk_2__.json"}}

\* C15: nothing a caller does to a sequence it was returned, to the sequence
\* or to its elements, changes the caches: every cached shard holds what its
\* stored object holds, and every cached result holds stored answers with
\* their stored counts.
C15_CachesIsolated ==
    /\ \A i \in 1..Len(chunkCache) :
           [chunkCache[i].chunk EXCEPT !.answers = Values(@)] =
               ChunkData(chunkCache[i].fileName)
    /\ \A i \in 1..Len(resultCache) :
           SeqToSet(Values(resultCache[i].results)) \subseteq StoredMatches

\* the accepted answers of the first n of a list of loaded shards, in the
\* order of the list and, within a shard, of its answers
RECURSIVE AcceptedSeq(_, _, _)
AcceptedSeq(loads, n, normalizedPattern) ==
    IF n = 0 THEN <<>>
    ELSE AcceptedSeq(loads, n - 1, normalizedPattern) \o
         SelectSeq(loads[n].chunk.answers,
                   LAMBDA a : AcceptedMatch(normalizedPattern, a))

\* C16: the parallel-optimized strategy never accumulates more than
\* 2 * maxResults matches: the matches it accumulated are the first
\* 2 * maxResults accepted answers of the loaded shards (all of them when
\* there are fewer), no answer behind them being examined, and the result is
\* the maxResults highest counts among exactly those.
C16_EarlyStopBound ==
    \A c \in Callers :
        ParallelReturned(c) =>
            LET call == calls[c]
                loaded == FulfilledChunks(call.loads)
            IN  /\ Len(call.results) <= 2 * call.maxResults
                /\ call.results =
                       Slice(AcceptedSeq(loaded, Len(loaded), call.normalizedPattern),
                             2 * call.maxResults)
                /\ TopOf(call.returned, SeqToSet(call.results), call.maxResults)

\* the scan stopped inside the first shard: its third accepted answer and
\* the later shards were not examined
C16_Witness ==
    /\ ParallelReturned(1)
    /\ calls[1].maxResults = 1
    /\ calls[1].scanned = <<"chunk_2_A.json">>
    /\ Len(AcceptedSeq(calls[1].loads, 1, calls[1].normalizedPattern)) = 3
    /\ Len(calls[1].results) = 2
    /\ Len(FulfilledChunks(calls[1].loads)) = 3
    /\ Values(calls[1].returned) = <<AM(<<"A", "A">>, 5)>>

\* the call searched the one shard of a literal-first pattern, which loaded
DirectLoaded(c) ==
    /\ Returned(c)
    /\ ~calls[c].hit
    /\ calls[c].searchStrategy = "direct"
    /\ Len(calls[c].loads) = 1
    /\ calls[c].loads[1].status = "fulfilled"
    /\ HoldsShard(calls[c].loads[1].chunk)

\* C17: on a result-cache miss for a literal-first pattern whose candidate
\* shard loads, the direct strategy scans every answer of the shard, without
\* early stopping: it accumulates every accepted answer, and the result is
\* the maxResults highest counts among all of them.
C17_DirectScansAll ==
    \A c \in Callers :
        DirectLoaded(c) =>
            LET call == calls[c]
                matches == {call.loads[1].chunk.answers[k] :
                               k \in AcceptedIn(call.loads[1], call.normalizedPattern)}
            IN  /\ SeqToSet(call.results) = matches
                /\ Len(call.results) = Cardinality(matches)
                /\ TopOf(call.returned, matches, call.maxResults)

\* three matches were accumulated for a limit of one: more than 2 * maxResults
C17_Witness ==
    /\ DirectLoaded(1)
    /\ calls[1].pattern = <<"a", "?">>
    /\ calls[1].maxResults = 1
    /\ Len(calls[1].results) = 3
    /\ Values(calls[1].returned) = <<AM(<<"A", "A">>, 5)>>

\* the place of an element in a sequence without repeats that holds it
Pos(s, x) == CHOOSE i \in 1..Len(s) : s[i] = x

\* the call searched with the parallel-optimized strategy, the shard cache
\* being empty: every shard it scanned was loaded by it, and insertLog gives
\* the order in which these loads completed
ParallelFromEmpty(c) ==
    /\ ParallelReturned(c)
    /\ calls[c].cachedAtCheck = {}
    /\ SeqToSet(calls[c].scanned) \subseteq SeqToSet(insertLog)

\* C18 as stated: in the parallel-optimized strategy a shard whose load
\* completed before another one's is scanned before it.
C18_Original ==
    \A c \in Callers :
        ParallelFromEmpty(c) =>
            \A i, j \in 1..Len(calls[c].scanned) :
                Pos(insertLog, calls[c].scanned[i]) < Pos(insertLog, calls[c].scanned[j])
                    => i < j

\* C18 (amended): in the parallel-optimized strategy the loaded shards are
\* scanned in the order of the candidate list, whatever the order in which
\* their loads completed: a shard is scanned before another exactly when it
\* precedes it among the candidates, and a loaded candidate is passed over
\* only behind the last scanned one.
C18_ScanInCandidateOrder ==
    \A c \in Callers :
        ParallelReturned(c) =>
            LET call == calls[c]
                rc == call.relevantChunks
                loadedNames == SeqToSet(FileNames(
                                   SelectSeq(call.loads,
                                             LAMBDA l : l.status = "fulfilled")))
            IN  /\ NoRepeats(call.scanned)
                /\ SeqToSet(call.scanned) \subseteq loadedNames
                /\ \A i, j \in 1..Len(call.scanned) :
                       i < j <=> Pos(rc, call.scanned[i]) < Pos(rc, call.scanned[j])
                /\ \A f \in loadedNames \ SeqToSet(call.scanned) :
                       \A i \in 1..Len(call.scanned) :
                           Pos(rc, call.scanned[i]) < Pos(rc, f)

\* the second candidate's load completed first, and the first candidate was
\* scanned first all the same
C18_Witness ==
    /\ ParallelFromEmpty(1)
    /\ Len(insertLog) >= 2
    /\ insertLog[1] = "chunk_2_B.json"
    /\ insertLog[2] = "chunk_2_A.json"
    /\ Len(calls[1].scanned) >= 2
    /\ calls[1].scanned[1] = "chunk_2_A.json"
    /\ calls[1].scanned[2] = "chunk_2_B.json"

\* the entries of a result cache under the keys other than one
OtherEntries(cache, key) == SelectSeq(cache, LAMBDA e : e.key # key)

\* a step stored a result in the result cache
PutStep == putLog' # putLog

PutKey == putLog'[Len(putLog')]

ReadStep(c) ==
    /\ calls[c].kind = "findMatchingAnswers"
    /\ calls[c].pc = "manifestLoaded"
    /\ calls'[c] # calls[c]

\* C20: a result-cache read takes an entry for stale exactly when
\* now - timestamp > 5 minutes, an entry aged exactly 5 minutes being a hit;
\* it removes a stale entry and reports a miss; it returns a fresh entry and
\* leaves the cache as it is, timestamp and insertion position included.
C20_ReadExpiry ==
    [][\A c \in Callers :
          ReadStep(c) =>
              LET key == getCacheKey(calls[c].pattern) IN
              IF ~ResultCacheHas(resultCache, key)
              THEN ~calls'[c].hit
              ELSE LET cached == ResultCacheEntry(resultCache, key) IN
                   IF now - cached.timestamp > 5 * 60 * 1000
                   THEN /\ ~calls'[c].hit
                        /\ calls'[c].pc # "returned" \/ PutStep
                        /\ ~ResultCacheHas(resultCache', key) \/ PutStep
                        /\ OtherEntries(resultCache', key) = OtherEntries(resultCache, key)
                   ELSE /\ calls'[c].hit
                        /\ calls'[c].pc = "returned"
                        /\ calls'[c].returned = Slice(cached.results, calls[c].maxResults)
                        /\ resultCache' = resultCache]_vars

\* a read found the entry one millisecond past its 5 minutes and removed it
C20_Witness ==
    /\ FoundExpired(1)
    /\ calls[1].pc \in {"directLoad", "parallelLoad"}
    /\ calls[1].checkedAt = calls[1].cachedTimestamp + CACHE_TTL + 1
    /\ ~ResultCacheHas(resultCache, getCacheKey(calls[1].normalizedPattern))
    /\ calls[1].last.hit
    /\ calls[1].last.checkedAt = calls[1].cachedTimestamp + CACHE_TTL

\* the loads a step of a call started: those of a call that has just read
\* the result cache, or those added behind the ones it had
StartedLoads(c) ==
    {i \in 1..Len(calls'[c].loads) :
        calls[c].pc = "manifestLoaded" \/ i > Len(calls[c].loads)}

\* the gets a step of a call issued
IssuedGets(c) ==
    IF calls[c].pc = "manifestLoaded" \/ Len(calls'[c].gets) < Len(calls[c].gets)
    THEN SeqToSet(calls'[c].gets)
    ELSE SeqToSet(SubSeq(calls'[c].gets, Len(calls[c].gets) + 1, Len(calls'[c].gets)))

\* C21: a load of a shard the shard cache holds resolves to the cached value
\* with no storage get and leaves the shard cache as it is; the cache changes
\* only when a fetched shard is inserted, so it keeps the order of insertion
\* and the next eviction removes the oldest-inserted identifier, read last
\* or not.
C21_ShardCacheHit ==
    [][/\ \A c \in Callers : \A i \in StartedLoads(c) :
              LET load == calls'[c].loads[i] IN
              IF ChunkCacheHas(chunkCache, load.fileName)
              THEN /\ load.status = "fulfilled"
                   /\ load.chunk = ChunkCacheGet(chunkCache, load.fileName)
                   /\ load.fileName \notin IssuedGets(c)
              ELSE /\ load.status = "pending"
                   /\ load.fileName \in IssuedGets(c)
       /\ insertLog' = insertLog => chunkCache' = chunkCache
       /\ (NoRepeats(insertLog') /\ Len(insertLog') > 10)
              => [i \in 1..Len(chunkCache') |-> chunkCache'[i].fileName]
                     = LastN(insertLog', 10)]_vars

\* the shard inserted first was the last one read when the cache filled up,
\* and it was evicted all the same
C21_Witness ==
    /\ Len(insertLog) = 12
    /\ insertLog[1] = "chunk_1_A.json"
    /\ calls[1].pattern = WildcardPattern(6)
    /\ calls[1].last.outcome = "returned"
    /\ calls[1].last.normalizedPattern = <<"A">>
    /\ ~calls[1].last.hit
    /\ ~ChunkCacheHas(chunkCache, "chunk_1_A.json")
    /\ Len(chunkCache) = 10
    /\ chunkCache[1].fileName = insertLog[3]

\* C22: within one query every candidate shard identifier is fetched from the
\* storage backend at most once, in either strategy: the call issues no get
\* twice, starts one load for each candidate at most, and a load that failed
\* is not started again.
C22_NoRetry ==
    \A c \in Callers :
        calls[c].kind = "findMatchingAnswers" =>
            /\ NoRepeats(calls[c].gets)
            /\ NoRepeats(FileNames(calls[c].loads))
            /\ ShardGets(c) \subseteq SeqToSet(calls[c].relevantChunks)
            /\ Len(calls[c].loads) <= Len(calls[c].relevantChunks)

\* a query of three candidates, one of which failed, ended with three gets
C22_Witness ==
    /\ Returned(1)
    /\ ~calls[1].hit
    /\ Len(calls[1].loads) = 3
    /\ calls[1].loads[2].status = "rejected"
    /\ Cardinality(ShardGets(1)) = 3
    /\ Len(calls[1].gets) = 3

\* the answers the build processed: the input answers, uppercased
ProcessedAnswers ==
    {toUpperCase(build.lines[i].answer) :
        i \in {j \in 1..Len(build.lines) :
                  /\ build.lines[j].answer # <<>>
                  /\ build.lines[j].clue # ""
                  /\ Len(build.lines[j].answer) <= MAX_ANSWER_LENGTH}}

\* the written shard files that hold an answer
FilesHolding(a) ==
    {build.files[i].key : i \in {j \in 1..Len(build.files) :
        \E k \in 1..Len(build.files[j].value.answers) :
            build.files[j].value.answers[k].answer = a}}

\* the shard identifiers the written manifest registers for a length and bucket
BuildRegistered(length, bucket) ==
    {e.value : e \in {x \in SeqToSet(ObjectGet(build.manifest.chunks, ToString(length))) :
                          x.key = bucket}}

\* every shard identifier the written manifest registers, with its place
AllRegistered ==
    UNION {{<<build.manifest.chunks[i].key, e.key, e.value>> :
               e \in SeqToSet(build.manifest.chunks[i].value)} :
           i \in 1..Len(build.manifest.chunks)}

\* C23: after the build every processed answer is in exactly one written
\* shard file, the one the manifest registers for its length and the
\* sanitized first character, and manifest.chunkCount is the number of shard
\* identifiers the manifest registers.
C23_BuildPartition ==
    build.pc \in {"done", "uploading", "uploaded"} =>
        /\ \A a \in ProcessedAnswers :
               /\ Cardinality(FilesHolding(a)) = 1
               /\ FilesHolding(a) = BuildRegistered(Len(a), cleanFirstChar(a[1]))
        /\ build.manifest.chunkCount = Cardinality(AllRegistered)

\* the indices, counted from 0, at which a pattern holds the wildcard
WildcardIndices(pattern) == {i \in 0..(Len(pattern) - 1) : pattern[i + 1] = "?"}

Ascending(s) == \A i \in 1..(Len(s) - 1) : s[i] < s[i + 1]

\* C24: the analysis of a non-empty normalized pattern lists the indices of
\* its wildcards in ascending order and counts them, says whether index 0 is
\* a wildcard, flags the pattern as high cost exactly when it starts with a
\* wildcard and has more than 3 wildcards or a wildcard ratio above 0.6, and
\* picks 'parallel-optimized' exactly when it starts with a wildcard; a
\* search that runs the direct strategy has at most one candidate shard.
C24_Analysis ==
    /\ (response.route = "/debug/pattern" /\ response.status = 200) =>
           LET p == response.pattern
               a == response.analysis
               W == WildcardIndices(p)
           IN  /\ p # <<>>
               /\ SeqToSet(a.wildcardPositions) = W
               /\ Ascending(a.wildcardPositions)
               /\ a.wildcardCount = Cardinality(W)
               /\ a.wildcardCount = Len(a.wildcardPositions)
               /\ a.startsWithWildcard <=> (0 \in W)
               /\ a.isHighCostPattern <=>
                      (0 \in W /\ (Cardinality(W) > 3 \/ 5 * Cardinality(W) > 3 * Len(p)))
               /\ a.searchStrategy =
                      IF 0 \in W THEN "parallel-optimized" ELSE "direct"
    /\ \A c \in Callers :
           calls[c].searchStrategy \in {"direct", "parallel-optimized"} =>
               /\ calls[c].searchStrategy = "parallel-optimized"
                      <=> calls[c].normalizedPattern[1] = "?"
               /\ calls[c].searchStrategy = "direct" =>
                      /\ Len(calls[c].relevantChunks) <= 1
                      /\ Len(calls[c].loads) <= 1
                      /\ Len(calls[c].gets) <= 2

\* a pattern that starts with a wildcard and has a ratio of exactly 0.6 was
\* analysed: it is not high cost
C24_Witness ==
    /\ response.route = "/debug/pattern"
    /\ response.status = 200
    /\ Len(response.pattern) = 5
    /\ response.analysis.wildcardPositions = <<0, 2, 3>>
    /\ ~response.analysis.isHighCostPattern
    /\ response.analysis.searchStrategy = "parallel-optimized"

\* C25: the /answers handler calls the engine only with a maxResults that is
\* an integer from 1 to 500; for every other value of the parameter it
\* answers 400 and starts no search.
C25_LimitInRange ==
    \A c \in Callers :
        calls[c].kind = "findMatchingAnswers" => calls[c].maxResults \in 1..500

\* the stored answers a normalized pattern accepts
MatchesOf(normalizedPattern) ==
    {x \in StoredMatches :
        RegexTest(RegExpCompile(RegExpSource(normalizedPattern)), x.answer)}

\* C26: with every shard available, a query served from the result cache
\* returns as many matches as a search would, min(maxResults, number of
\* matches), whatever limit the query that filled the entry had.
C26_CacheTransparent ==
    \A c \in Callers :
        (Returned(c) /\ calls[c].hit) =>
            /\ SeqToSet(Values(calls[c].returned))
                   \subseteq MatchesOf(calls[c].normalizedPattern)
            /\ Len(calls[c].returned) =
                   Min(calls[c].maxResults,
                       Cardinality(MatchesOf(calls[c].normalizedPattern)))

\* C27: a partial result is not served to the next query of the pattern: the
\* shards that failed to load in the previous query are read from storage
\* again.
C27_FailedShardsRetried ==
    \A c \in Callers :
        (/\ Returned(c)
         /\ calls[c].last.outcome = "returned"
         /\ calls[c].last.normalizedPattern = calls[c].normalizedPattern
         /\ calls[c].last.rejected # {})
            => calls[c].last.rejected \subseteq ShardGets(c)
====
